---- MODULE Spec2Model ----
(***************************************************************************)
(* devforecast: the request-caching API route handlers, the client-side    *)
(* cache and the data hooks built on it.                                    *)
(*                                                                          *)
(* Strings whose characters matter (cache keys, icon codes) are sequences  *)
(* of one-character strings; other strings are TLA+ strings.  JavaScript   *)
(* null and undefined are the strings "null" and "undefined" inside tagged *)
(* values, so that they stay distinguishable from '' and from each other.  *)
(***************************************************************************)
EXTENDS Integers, Sequences, FiniteSets, TLC

\* ---------------------------------------------------------------------------
\* Bounds of the model
\* ---------------------------------------------------------------------------
MaxParams == 2
MaxSamples == 3
MaxTicks == 3
MaxOps == 3
MaxReqs == 2
MaxServerTicks == 2
MaxItems == 2
MaxRepoReqs == 2
MaxRepoTicks == 1

\* ---------------------------------------------------------------------------
\* State
\* ---------------------------------------------------------------------------
VARIABLES
  keyPc,        \* generateCacheKey harness: "input" | "done"
  kEndpoint,    \* endpoint argument
  kParamsA,     \* params argument, as the insertion-ordered list of its entries
  kParamsB,     \* a second params argument
  keyA,         \* generateCacheKey(kEndpoint, kParamsA)
  keyB          \* generateCacheKey(kEndpoint, kParamsB)

keyVars == <<keyPc, kEndpoint, kParamsA, kParamsB, keyA, keyB>>

VARIABLES
  fcPc,         \* processForecastList harness: "input" | "done"
  fcList,       \* the list argument: 3-hour samples [dt, temp, icon]
  fcOffset,     \* the timezoneOffset argument, in seconds
  fcDaily,      \* the dailyData buckets built by the forEach, in insertion order
  fcResult      \* the returned list of day records

fcVars == <<fcPc, fcList, fcOffset, fcDaily, fcResult>>

VARIABLES
  cNow,           \* Date.now() in the browser, in milliseconds
  ticks,          \* how many times the clock has advanced
  cacheStore,     \* ClientCache.cacheStore: key -> [data, timestamp, expiryTime]
  isInitialized,  \* ClientCache.isInitialized
  lsItem,         \* localStorage item 'devforecast_api_cache': [present, store]
  envWindow,      \* typeof window !== 'undefined'
  envReadThrows,  \* access to localStorage throws
  envWriteThrows, \* localStorage.setItem throws
  cacheEvent,     \* the last ClientCache call and what it returned
  lastSet         \* per key: the last set() not yet followed by clear()/clearAll()

cacheVars == <<cNow, ticks, cacheStore, isInitialized, lsItem,
               envWindow, envReadThrows, envWriteThrows, cacheEvent, lastSet>>

VARIABLES
  hookKey,        \* useDataFetcher: the key argument of the current render
  hookData,       \* useState data
  hookLoading,    \* useState isLoading
  hookError,      \* useState error
  inflight,       \* fetcher promises not yet settled: [id, key, force]
  fetcherCalls,   \* number of fetcher() invocations so far
  opCount,        \* number of hook operations so far
  hookEvent,      \* the last hook operation
  panelFilter,    \* GitHubProjectHighlight: useState filter
  panelTimeFilter \* GitHubProjectHighlight: useState timeFilter

hookVars == <<hookKey, hookData, hookLoading, hookError, inflight,
              fetcherCalls, opCount, hookEvent, panelFilter, panelTimeFilter>>

VARIABLES
  sNow,           \* Date.now() on the server, in milliseconds
  sTicks,         \* how many times the server clock has advanced
  weatherCache,   \* weatherCache: cacheKey -> [data, timestamp]
  owmApiKey,      \* process.env.OPENWEATHERMAP_API_KEY
  wReq,           \* the GET /api/weather requests in progress: position and locals
  wLast,          \* the response sent last
  wDone,          \* the requests that missed and answered 200: [cacheKey, now, body, overlapped]
  wFirst          \* per cache key, the first request that missed the cache

weatherVars == <<sNow, sTicks, weatherCache, owmApiKey, wReq, wLast, wDone, wFirst>>

VARIABLES
  geminiApiKey,   \* process.env.GEMINI_API_KEY
  geminiBaseUrl,  \* process.env.NEXT_PUBLIC_GEMINI_API_BASE_URL
  gPc,            \* POST /api/gemini: "idle" | "awaitUpstream" | "done"
  gBody,          \* the request body: [json, project, weatherData, projectData]
  gMode,          \* the prompt branch taken: 1, 2, 3, or 0 for none
  gCalls,         \* number of axios.post calls made by the request
  gResp,          \* the response: [status, error, message]
  qPc,            \* POST /api/gemini/question: "idle" | "awaitUpstream" | "done"
  qBody,          \* the request body: [json, question, repoName]
  qCalls,         \* number of axios.post calls made by the request
  qResp           \* the response: [status, error, details, message]

geminiVars == <<geminiApiKey, geminiBaseUrl, gPc, gBody, gMode, gCalls, gResp,
                qPc, qBody, qCalls, qResp>>

VARIABLES
  ghPc,           \* normalization harness: "input" | "done"
  ghHandler,      \* which handler normalized: "repo" | "trending" | "search"
  ghUpstream,     \* the repositories of the upstream response
  ghProjects      \* the normalized projects the handler returns

githubVars == <<ghPc, ghHandler, ghUpstream, ghProjects>>

VARIABLES
  rpNow,          \* Date.now() on the server of the GitHub and weather routes, in milliseconds
  rpTicks,        \* how many times that clock has advanced
  rpStarted,      \* number of requests received so far
  repoCache,      \* repoCache of /api/github: cacheKey -> [data, timestamp]
  trendingCache,  \* trendingCache of /api/github: cacheKey -> [data, timestamp]
  rpReq,          \* GET /api/github in progress: position, parameters, locals, response
  rpEvent         \* the upstream call the last step settled: [call, ok, cacheKey]

repoVars == <<rpNow, rpTicks, rpStarted, repoCache, trendingCache, rpReq, rpEvent>>

VARIABLES
  srRoute,            \* the route requested: "github" | "search" | "issues" | "weather"
  searchCache,        \* searchCache of /api/github/search: cacheKey -> [data, timestamp]
  issueCache,         \* issueCache of /api/github/issues: cacheKey -> [data, timestamp]
  simpleWeatherCache, \* weatherCache of /api/weather: cacheKey -> [data, timestamp]
  srApiKey,           \* process.env.OPENWEATHERMAP_API_KEY as /api/weather reads it
  srReq               \* the request of one of the three routes in progress

routeVars == <<srRoute, searchCache, issueCache, simpleWeatherCache, srApiKey, srReq>>

vars == <<keyVars, fcVars, cacheVars, hookVars, weatherVars, geminiVars, githubVars,
          repoVars, routeVars>>

\* ---------------------------------------------------------------------------
\* The parts of the state a specification does not exercise stay idle
\* ---------------------------------------------------------------------------
KeyIdle ==
  /\ keyPc = "off" /\ kEndpoint = <<>> /\ kParamsA = <<>> /\ kParamsB = <<>>
  /\ keyA = <<>> /\ keyB = <<>>

FcIdle ==
  /\ fcPc = "off" /\ fcList = <<>> /\ fcOffset = 0 /\ fcDaily = <<>> /\ fcResult = <<>>

CacheIdle ==
  /\ cNow = 0 /\ ticks = 0 /\ cacheStore = <<>> /\ isInitialized = FALSE
  /\ lsItem = [present |-> FALSE, store |-> <<>>]
  /\ envWindow = FALSE /\ envReadThrows = FALSE /\ envWriteThrows = FALSE
  /\ cacheEvent = [op |-> "none"] /\ lastSet = <<>>

NoHookEvent ==
  [op |-> "none", key |-> "null", fresh |-> FALSE, force |-> FALSE, id |-> 0,
   result |-> "null"]

WeatherIdle ==
  /\ sNow = 0 /\ sTicks = 0 /\ weatherCache = <<>> /\ owmApiKey = "undefined"
  /\ wReq = <<>> /\ wLast = <<>> /\ wDone = {} /\ wFirst = <<>>

GeminiIdle ==
  /\ geminiApiKey = "undefined" /\ geminiBaseUrl = "undefined" /\ gPc = "off"
  /\ gBody = <<>> /\ gMode = 0 /\ gCalls = 0 /\ gResp = <<>>
  /\ qPc = "off" /\ qBody = <<>> /\ qCalls = 0 /\ qResp = <<>>

GithubIdle ==
  /\ ghPc = "off" /\ ghHandler = "none" /\ ghUpstream = <<>> /\ ghProjects = <<>>

RepoIdle ==
  /\ rpNow = 0 /\ rpTicks = 0 /\ rpStarted = 0 /\ repoCache = <<>>
  /\ trendingCache = <<>> /\ rpReq = <<>> /\ rpEvent = <<>>

RouteIdle ==
  /\ srRoute = "none" /\ searchCache = <<>> /\ issueCache = <<>>
  /\ simpleWeatherCache = <<>> /\ srApiKey = "undefined" /\ srReq = <<>>

HookIdle ==
  /\ hookKey = "unmounted" /\ hookData = "null" /\ hookLoading = FALSE
  /\ hookError = "null" /\ inflight = {} /\ fetcherCalls = 0 /\ opCount = 0
  /\ hookEvent = NoHookEvent
  /\ panelFilter = "none" /\ panelTimeFilter = "none"

\* ---------------------------------------------------------------------------
\* Helpers on sequences
\* ---------------------------------------------------------------------------
Range(s) == {s[i] : i \in DOMAIN s}

\* ===========================================================================
\* client-cache: generateCacheKey
\* ===========================================================================

\* UTF-16 code unit of the characters used in keys and values
CharCode(c) ==
  CASE c = "&" -> 38
    [] c = "/" -> 47
    [] c = "1" -> 49
    [] c = "2" -> 50
    [] c = "=" -> 61
    [] c = "?" -> 63
    [] c = "a" -> 97
    [] c = "b" -> 98
    [] c = "e" -> 101
    [] c = "r" -> 114
    [] c = "t" -> 116
    [] c = "u" -> 117
    [] c = "w" -> 119

\* the comparison Array.prototype.sort() uses without a comparator:
\* strings compared by code units, a proper prefix first
RECURSIVE StrLess(_, _)
StrLess(s, t) ==
  IF t = <<>> THEN FALSE
  ELSE IF s = <<>> THEN TRUE
  ELSE IF CharCode(Head(s)) # CharCode(Head(t))
       THEN CharCode(Head(s)) < CharCode(Head(t))
       ELSE StrLess(Tail(s), Tail(t))

\* Array.prototype.sort() on a list of distinct strings
RECURSIVE SortStrings(_)
SortStrings(ks) ==
  IF ks = <<>> THEN <<>>
  ELSE LET m == CHOOSE i \in DOMAIN ks :
                  \A j \in DOMAIN ks : j = i \/ StrLess(ks[i], ks[j])
           rest == [i \in 1..(Len(ks) - 1) |-> IF i < m THEN ks[i] ELSE ks[i + 1]]
       IN <<ks[m]>> \o SortStrings(rest)

\* String(v) for the value kinds the parameter type admits
ToStr(v) ==
  CASE v.t = "string"  -> v.v
    [] v.t = "number"  -> IF v.v = 1 THEN <<"1">> ELSE <<"2">>
    [] v.t = "boolean" -> IF v.v THEN <<"t", "r", "u", "e">> ELSE <<"f">>

\* Object.keys(params): the own keys in insertion order
ObjectKeys(params) == [i \in DOMAIN params |-> params[i].k]

\* params[key]
Lookup(params, key) == (CHOOSE i \in DOMAIN params : params[i].k = key)

\* Array.prototype.join(sep)
RECURSIVE Join(_, _)
Join(ss, sep) ==
  IF ss = <<>> THEN <<>>
  ELSE IF Len(ss) = 1 THEN ss[1]
  ELSE ss[1] \o sep \o Join(Tail(ss), sep)

\* generateCacheKey with the keys left in insertion order
generateCacheKeyUnsorted(endpoint, params) ==
  LET keys == ObjectKeys(params)
      parts == [i \in DOMAIN keys |->
                  keys[i] \o <<"=">> \o ToStr(params[Lookup(params, keys[i])].v)]
      sortedParams == Join(parts, <<"&">>)
  IN endpoint \o (IF sortedParams # <<>> THEN <<"?">> \o sortedParams ELSE <<>>)

generateCacheKey(endpoint, params) ==
  LET keys == SortStrings(ObjectKeys(params))
      parts == [i \in DOMAIN keys |->
                  keys[i] \o <<"=">> \o ToStr(params[Lookup(params, keys[i])].v)]
      sortedParams == Join(parts, <<"&">>)
  IN endpoint \o (IF sortedParams # <<>> THEN <<"?">> \o sortedParams ELSE <<>>)

\* ===========================================================================
\* combined weather route: processForecastList
\* ===========================================================================
SecondsPerDay == 24 * 3600

\* number of leading day records kept by processForecastList
ForecastSliceDays == 6

\* the dateKey of new Date((dt + offset) * 1000): the UTC calendar date, which
\* the year-month-day string names one-to-one; represented by its day number
DateKey(dt, offset) == (dt + offset) \div SecondsPerDay

\* new Date((dt + offset) * 1000).getUTCHours()
UTCHours(dt, offset) == ((dt + offset) % SecondsPerDay) \div 3600

\* a replace that leaves the string as it is
ReplaceNone(s, from, to) == s

\* String.prototype.replace with string arguments: the first occurrence only
RECURSIVE ReplaceFirst(_, _, _)
ReplaceFirst(s, from, to) ==
  IF s = <<>> THEN <<>>
  ELSE IF Head(s) = from THEN <<to>> \o Tail(s)
  ELSE <<Head(s)>> \o ReplaceFirst(Tail(s), from, to)

\* index of the bucket with this dateKey, 0 when there is none
BucketIndex(daily, key) ==
  IF \E i \in DOMAIN daily : daily[i].key = key
  THEN CHOOSE i \in DOMAIN daily : daily[i].key = key
  ELSE 0

\* one iteration of list.forEach in processForecastList
AddSample(daily, item, offset) ==
  LET key == DateKey(item.dt, offset)
      hour == UTCHours(item.dt, offset)
      fresh == [key |-> key, temps |-> <<>>, weatherIcons |-> <<>>, dt |-> 0]
      created == IF hour >= 11 /\ hour <= 13
                 THEN [fresh EXCEPT !.dt = item.dt]
                 ELSE IF fresh.dt = 0 THEN [fresh EXCEPT !.dt = item.dt]
                 ELSE fresh
      withBucket == IF BucketIndex(daily, key) = 0 THEN Append(daily, created) ELSE daily
      i == BucketIndex(withBucket, key)
  IN [withBucket EXCEPT ![i].temps = Append(@, item.temp),
                        ![i].weatherIcons = Append(@, item.icon)]

\* the dailyData record after the forEach over the first n samples
RECURSIVE DailyData(_, _, _)
DailyData(list, offset, n) ==
  IF n = 0 THEN <<>>
  ELSE AddSample(DailyData(list, offset, n - 1), list[n], offset)

\* the state of getMostFrequentIcon's forEach after the first n icons
RECURSIVE IconScan(_, _)
IconScan(icons, n) ==
  IF n = 0 THEN [frequency |-> <<>>, maxFreq |-> 0, mostFrequentIcon |-> icons[1]]
  ELSE LET prev == IconScan(icons, n - 1)
           dayIcon == ReplaceFirst(icons[n], "n", "d")
           old == IF \E e \in Range(prev.frequency) : e.icon = dayIcon
                  THEN (CHOOSE e \in Range(prev.frequency) : e.icon = dayIcon).count
                  ELSE 0
           freq == IF old = 0
                   THEN Append(prev.frequency, [icon |-> dayIcon, count |-> 1])
                   ELSE [i \in DOMAIN prev.frequency |->
                           IF prev.frequency[i].icon = dayIcon
                           THEN [icon |-> dayIcon, count |-> old + 1]
                           ELSE prev.frequency[i]]
       IN IF old + 1 > prev.maxFreq
          THEN [frequency |-> freq, maxFreq |-> old + 1, mostFrequentIcon |-> dayIcon]
          ELSE [frequency |-> freq, maxFreq |-> prev.maxFreq,
                mostFrequentIcon |-> prev.mostFrequentIcon]

getMostFrequentIcon(icons) ==
  IF Len(icons) = 0 THEN <<"0", "1", "d">>
  ELSE IconScan(icons, Len(icons)).mostFrequentIcon

\* Math.min(...temps), Math.max(...temps) on a non-empty list
MathMin(temps) == CHOOSE t \in Range(temps) : \A u \in Range(temps) : t <= u
MathMax(temps) == CHOOSE t \in Range(temps) : \A u \in Range(temps) : t >= u

\* a day record that takes the bucket's first temperature for min and max
DayRecordFirstTemp(data) ==
  [dt |-> data.dt,
   temp |-> [min |-> data.temps[1], max |-> data.temps[1]],
   icon |-> getMostFrequentIcon(data.weatherIcons)]

\* the callback of Object.entries(dailyData).map
DayRecord(data) ==
  [dt |-> data.dt,
   temp |-> [min |-> MathMin(data.temps), max |-> MathMax(data.temps)],
   icon |-> getMostFrequentIcon(data.weatherIcons)]

\* Array.prototype.sort((a, b) => a.dt - b.dt): stable, ascending dt
RECURSIVE SortByDt(_)
SortByDt(rs) ==
  IF rs = <<>> THEN <<>>
  ELSE LET m == CHOOSE i \in DOMAIN rs :
                  /\ \A j \in DOMAIN rs : rs[i].dt <= rs[j].dt
                  /\ \A j \in 1..(i - 1) : rs[j].dt # rs[i].dt
           rest == [i \in 1..(Len(rs) - 1) |-> IF i < m THEN rs[i] ELSE rs[i + 1]]
       IN <<rs[m]>> \o SortByDt(rest)

\* Array.prototype.slice(0, n)
SliceFront(s, n) == SubSeq(s, 1, IF Len(s) < n THEN Len(s) ELSE n)

processForecastList(list, timezoneOffset) ==
  LET dailyData == DailyData(list, timezoneOffset, Len(list))
      records == [i \in DOMAIN dailyData |-> DayRecord(dailyData[i])]
  IN SliceFront(SortByDt(records), ForecastSliceDays)

\* ---------------------------------------------------------------------------
\* processForecastList harness
\* ---------------------------------------------------------------------------
\* 2024-01-01T00:00:00Z, in seconds
DayBase == 19723 * SecondsPerDay

SampleTimes == { DayBase + 9 * 3600, DayBase + 12 * 3600,
                 DayBase + 21 * 3600, DayBase + 36 * 3600 }
SampleTemps == { 10, 18 }
SampleIcons == { <<"0", "1", "n">>, <<"0", "1", "d">>, <<"0", "2", "d">> }
Offsets == { 0, 3 * 3600 }

Samples == [dt : SampleTimes, temp : SampleTemps, icon : SampleIcons]

SmallLists == UNION { [1..n -> Samples] : n \in 0..MaxSamples }

\* eight 3-hour samples spanning one UTC day
OneDayTemps == <<10, 12, 14, 16, 18, 15, 13, 11>>
OneDayIcons == << <<"0", "1", "n">>, <<"0", "1", "n">>, <<"0", "2", "d">>, <<"0", "2", "d">>,
                  <<"0", "1", "d">>, <<"1", "0", "d">>, <<"1", "0", "n">>, <<"0", "1", "n">> >>
OneDayList ==
  [i \in 1..8 |-> [dt |-> DayBase + (i - 1) * 3 * 3600,
                   temp |-> OneDayTemps[i], icon |-> OneDayIcons[i]]]

\* one sample at 09:00 and one at 12:00 on each of seven consecutive days
SevenDayList ==
  [i \in 1..14 |-> [dt |-> DayBase + ((i - 1) \div 2) * SecondsPerDay
                              + (IF i % 2 = 1 THEN 9 ELSE 12) * 3600,
                    temp |-> 10 + i,
                    icon |-> IF i % 2 = 1 THEN <<"0", "1", "n">> ELSE <<"0", "2", "d">>]]

ForecastLists == SmallLists \cup { OneDayList, SevenDayList }

FcInit ==
  /\ KeyIdle /\ CacheIdle /\ HookIdle /\ WeatherIdle /\ GeminiIdle /\ GithubIdle
  /\ RepoIdle /\ RouteIdle
  /\ fcPc = "input"
  /\ fcList \in ForecastLists
  /\ fcOffset \in Offsets
  /\ fcDaily = <<>> /\ fcResult = <<>>

ProcessForecast ==
  /\ fcPc = "input"
  /\ fcDaily' = DailyData(fcList, fcOffset, Len(fcList))
  /\ fcResult' = processForecastList(fcList, fcOffset)
  /\ fcPc' = "done"
  /\ UNCHANGED <<fcList, fcOffset>>
  /\ UNCHANGED <<keyVars, cacheVars, hookVars, weatherVars, geminiVars, githubVars,
               repoVars, routeVars>>

FcNext == ProcessForecast

SpecForecast == FcInit /\ [][FcNext]_vars

\* the samples of the list falling on the calendar day `key`, in list order
SamplesOfDay(list, offset, key) ==
  SelectSeq(list, LAMBDA s : (s.dt + offset) \div SecondsPerDay = key)

TempsOf(ss) == [i \in DOMAIN ss |-> ss[i].temp]
IconsOf(ss) == [i \in DOMAIN ss |-> ss[i].icon]

\* C5: every sample lies in exactly one bucket, that of the UTC date of
\* dt + offset, and each returned day record carries the minimum and the
\* maximum temperature of exactly its bucket's samples.
C5_BucketsAndMinMax ==
  fcPc = "done" =>
    /\ \A i, j \in DOMAIN fcDaily : i # j => fcDaily[i].key # fcDaily[j].key
    /\ \A n \in DOMAIN fcList :
         \E i \in DOMAIN fcDaily :
           fcDaily[i].key = (fcList[n].dt + fcOffset) \div SecondsPerDay
    /\ \A i \in DOMAIN fcDaily :
         fcDaily[i].temps = TempsOf(SamplesOfDay(fcList, fcOffset, fcDaily[i].key))
    /\ \A r \in DOMAIN fcResult :
         LET day == SamplesOfDay(fcList, fcOffset,
                                 (fcResult[r].dt + fcOffset) \div SecondsPerDay)
         IN /\ day # <<>>
            /\ \A n \in DOMAIN day : fcResult[r].temp.min <= day[n].temp
            /\ \A n \in DOMAIN day : fcResult[r].temp.max >= day[n].temp
            /\ \E n \in DOMAIN day : fcResult[r].temp.min = day[n].temp
            /\ \E n \in DOMAIN day : fcResult[r].temp.max = day[n].temp

C5_Witness ==
  /\ fcPc = "done"
  /\ fcList = OneDayList
  /\ fcOffset = 0
  /\ Len(fcResult) = 1
  /\ fcResult[1].temp.min = 10
  /\ fcResult[1].temp.max = 18

\* the daytime equivalent of an icon code: a trailing "n" becomes "d"
NightToDay(icon) ==
  IF icon[Len(icon)] = "n" THEN [icon EXCEPT ![Len(icon)] = "d"] ELSE icon

\* how many of the first n icons fold to f
FoldedCount(icons, f, n) == Cardinality({ i \in 1..n : NightToDay(icons[i]) = f })

\* the highest folded count in the bucket
HighestCount(icons) ==
  CHOOSE m \in 1..Len(icons) :
    /\ \E i \in DOMAIN icons : FoldedCount(icons, NightToDay(icons[i]), Len(icons)) = m
    /\ \A i \in DOMAIN icons : FoldedCount(icons, NightToDay(icons[i]), Len(icons)) <= m

\* the position at which the folded icon f reaches the count m
ReachedAt(icons, f, m) ==
  CHOOSE n \in DOMAIN icons : NightToDay(icons[n]) = f /\ FoldedCount(icons, f, n) = m

\* C6: the representative icon of a bucket is a folded icon with the highest
\* count, and among the icons tied for it the one that reached it first.
C6_RepresentativeIcon ==
  fcPc = "done" =>
    \A r \in DOMAIN fcResult :
      LET icons == IconsOf(SamplesOfDay(fcList, fcOffset,
                                        (fcResult[r].dt + fcOffset) \div SecondsPerDay))
          m == HighestCount(icons)
          f == fcResult[r].icon
      IN /\ \E i \in DOMAIN icons : NightToDay(icons[i]) = f
         /\ FoldedCount(icons, f, Len(icons)) = m
         /\ \A i \in DOMAIN icons :
              LET g == NightToDay(icons[i])
              IN (g # f /\ FoldedCount(icons, g, Len(icons)) = m)
                   => ReachedAt(icons, f, m) < ReachedAt(icons, g, m)

C6_Witness ==
  /\ fcPc = "done"
  /\ Len(fcResult) = 1
  /\ IconsOf(fcList) = << <<"0", "1", "n">>, <<"0", "1", "n">>, <<"0", "2", "d">> >>
  /\ fcResult[1].icon = <<"0", "1", "d">>

\* the local hour of a sample is in 11..13
IsNoon(dt, offset) ==
  LET hour == ((dt + offset) % SecondsPerDay) \div 3600 IN hour >= 11 /\ hour <= 13

\* C7: the dt of a day record is the timestamp of a sample of the bucket whose
\* local hour is in 11..13 whenever the bucket has one, whatever its position,
\* and the first sample's timestamp only when it has none.
C7_NoonTimestamp ==
  fcPc = "done" =>
    \A r \in DOMAIN fcResult :
      LET day == SamplesOfDay(fcList, fcOffset,
                              (fcResult[r].dt + fcOffset) \div SecondsPerDay)
      IN IF \E n \in DOMAIN day : IsNoon(day[n].dt, fcOffset)
         THEN IsNoon(fcResult[r].dt, fcOffset)
         ELSE fcResult[r].dt = day[1].dt

\* ===========================================================================
\* client-cache: ClientCache
\* ===========================================================================
\* A synchronous call reads Date.now() once: the calls below take the clock
\* value `now` of the instant at which they run.

\* CACHE_DURATIONS, in milliseconds
CACHE_DURATIONS ==
  [WEATHER |-> 10 * 60 * 1000, GITHUB |-> 30 * 60 * 1000,
   AI_INSIGHT |-> 60 * 60 * 1000, DEFAULT |-> 15 * 60 * 1000]

\* {} as a store
EmptyStore == <<>>

\* delete store[k] for every k outside keep
Restrict(store, keep) == [k \in (DOMAIN store) \cap keep |-> store[k]]

\* store[key] = entry
Put(store, key, entry) ==
  [k \in (DOMAIN store) \cup {key} |-> IF k = key THEN entry ELSE store[k]]

\* JSON.parse(JSON.stringify(store)): the entries hold JSON values (fetch
\* results), numbers and strings, which the round trip rebuilds field by field
JsonRoundTrip(store) ==
  [k \in DOMAIN store |-> [data |-> store[k].data,
                           timestamp |-> store[k].timestamp,
                           expiryTime |-> store[k].expiryTime]]

\* the static fields of ClientCache together with the persisted item
Cache == [store |-> cacheStore, init |-> isInitialized, ls |-> lsItem]

persistCache(c) ==
  IF ~envWindow THEN c
  ELSE IF envReadThrows \/ envWriteThrows THEN c
  ELSE [c EXCEPT !.ls = [present |-> TRUE, store |-> JsonRoundTrip(c.store)]]

cleanExpiredEntries(c, now) ==
  LET kept == { k \in DOMAIN c.store : ~(c.store[k].expiryTime < now) }
      swept == [c EXCEPT !.store = Restrict(c.store, kept)]
  IN IF kept # DOMAIN c.store THEN persistCache(swept) ELSE swept

initialize(c, now) ==
  IF ~envWindow \/ c.init THEN c
  ELSE IF envReadThrows THEN [c EXCEPT !.store = EmptyStore]
  ELSE LET loaded == IF c.ls.present
                     THEN cleanExpiredEntries([c EXCEPT !.store = c.ls.store], now)
                     ELSE c
       IN [loaded EXCEPT !.init = TRUE]

\* ClientCache.cleanCache()
cleanCache(c, now) == cleanExpiredEntries(initialize(c, now), now)

\* ClientCache.get(key): the state it leaves and the value it returns
getState(c, key, now) == cleanExpiredEntries(initialize(c, now), now)
getResult(c, key, now) ==
  LET store == getState(c, key, now).store
  IN IF key \in DOMAIN store THEN store[key].data ELSE "null"

\* ClientCache.set(key, data, duration)
set(c, key, data, duration, now) ==
  LET c1 == initialize(c, now)
      entry == [data |-> data, timestamp |-> now, expiryTime |-> now + duration]
  IN persistCache([c1 EXCEPT !.store = Put(c1.store, key, entry)])

\* ClientCache.has(key)
hasState(c, key, now) == initialize(c, now)
hasResult(c, key, now) ==
  LET store == hasState(c, key, now).store
  IN IF key \in DOMAIN store THEN store[key].expiryTime > now ELSE FALSE

\* ClientCache.clear(key)
clear(c, key, now) ==
  LET c1 == initialize(c, now)
  IN IF key \in DOMAIN c1.store
     THEN persistCache([c1 EXCEPT !.store = Restrict(c1.store, (DOMAIN c1.store) \ {key})])
     ELSE c1

\* ClientCache.clearAll(); localStorage.removeItem is outside any try block,
\* the store is emptied before it can throw
clearAll(c) ==
  LET c1 == [c EXCEPT !.store = EmptyStore]
  IN IF envWindow /\ ~envReadThrows
     THEN [c1 EXCEPT !.ls = [present |-> FALSE, store |-> EmptyStore]]
     ELSE c1

\* the module is evaluated again by a page load: the static fields start over,
\* the localStorage item stays
reloaded(c) == [c EXCEPT !.store = EmptyStore, !.init = FALSE]

\* ---------------------------------------------------------------------------
\* ClientCache harness: direct calls, the clock and page loads
\* ---------------------------------------------------------------------------
CacheKeys == { "k1", "k2" }
CacheData == { "r1", "r2" }
Durations == { 2, CACHE_DURATIONS.WEATHER }
TickSteps == { 1, CACHE_DURATIONS.WEATHER - 1 }

NoSet == [live |-> FALSE, t0 |-> 0, value |-> "null", ttl |-> 0]

\* the browser environments: no window (server render), a working
\* localStorage, one that cannot be written, one that cannot be accessed
Environments ==
  { [window |-> FALSE, readThrows |-> FALSE, writeThrows |-> FALSE],
    [window |-> TRUE, readThrows |-> FALSE, writeThrows |-> FALSE],
    [window |-> TRUE, readThrows |-> FALSE, writeThrows |-> TRUE],
    [window |-> TRUE, readThrows |-> TRUE, writeThrows |-> TRUE] }

CacheStart ==
  /\ cNow = 0 /\ ticks = 0
  /\ cacheStore = EmptyStore /\ isInitialized = FALSE
  /\ lsItem = [present |-> FALSE, store |-> EmptyStore]
  /\ \E e \in Environments :
       /\ envWindow = e.window
       /\ envReadThrows = e.readThrows
       /\ envWriteThrows = e.writeThrows
  /\ cacheEvent = [op |-> "none"]
  /\ lastSet = [k \in CacheKeys |-> NoSet]

CacheInit ==
  /\ KeyIdle /\ FcIdle /\ HookIdle /\ WeatherIdle /\ GeminiIdle /\ GithubIdle
  /\ RepoIdle /\ RouteIdle
  /\ CacheStart

Become(c) ==
  /\ cacheStore' = c.store
  /\ isInitialized' = c.init
  /\ lsItem' = c.ls

EnvUnchanged == UNCHANGED <<envWindow, envReadThrows, envWriteThrows>>

CacheSet(key, data, duration) ==
  /\ Become(set(Cache, key, data, duration, cNow))
  /\ cacheEvent' = [op |-> "set", key |-> key]
  /\ lastSet' = [lastSet EXCEPT ![key] =
                   [live |-> TRUE, t0 |-> cNow, value |-> data, ttl |-> duration]]
  /\ UNCHANGED <<cNow, ticks>> /\ EnvUnchanged

CacheGet(key) ==
  /\ Become(getState(Cache, key, cNow))
  /\ cacheEvent' = [op |-> "get", key |-> key, result |-> getResult(Cache, key, cNow)]
  /\ UNCHANGED <<cNow, ticks, lastSet>> /\ EnvUnchanged

CacheHas(key) ==
  /\ Become(hasState(Cache, key, cNow))
  /\ cacheEvent' = [op |-> "has", key |-> key, result |-> hasResult(Cache, key, cNow)]
  /\ UNCHANGED <<cNow, ticks, lastSet>> /\ EnvUnchanged

CacheClear(key) ==
  /\ Become(clear(Cache, key, cNow))
  /\ cacheEvent' = [op |-> "clear", key |-> key]
  /\ lastSet' = [lastSet EXCEPT ![key] = NoSet]
  /\ UNCHANGED <<cNow, ticks>> /\ EnvUnchanged

CacheClearAll ==
  /\ Become(clearAll(Cache))
  /\ cacheEvent' = [op |-> "clearAll"]
  /\ lastSet' = [k \in CacheKeys |-> NoSet]
  /\ UNCHANGED <<cNow, ticks>> /\ EnvUnchanged

CacheClean ==
  /\ Become(cleanCache(Cache, cNow))
  /\ cacheEvent' = [op |-> "cleanCache"]
  /\ UNCHANGED <<cNow, ticks, lastSet>> /\ EnvUnchanged

ClockTick(d) ==
  /\ ticks < MaxTicks
  /\ cNow' = cNow + d
  /\ ticks' = ticks + 1
  /\ UNCHANGED <<cacheStore, isInitialized, lsItem, cacheEvent, lastSet>> /\ EnvUnchanged

PageLoad ==
  /\ envWindow
  /\ Become(reloaded(Cache))
  /\ cacheEvent' = [op |-> "load"]
  /\ UNCHANGED <<cNow, ticks, lastSet>> /\ EnvUnchanged

CacheNext ==
  /\ \/ \E k \in CacheKeys, d \in CacheData, t \in Durations : CacheSet(k, d, t)
     \/ \E k \in CacheKeys : CacheGet(k)
     \/ \E k \in CacheKeys : CacheHas(k)
     \/ \E k \in CacheKeys : CacheClear(k)
     \/ CacheClearAll
     \/ CacheClean
     \/ \E d \in TickSteps : ClockTick(d)
     \/ PageLoad
  /\ UNCHANGED <<keyVars, fcVars, hookVars, weatherVars, geminiVars, githubVars,
               repoVars, routeVars>>

SpecCache == CacheInit /\ [][CacheNext]_vars

\* C2: an entry stored by set(key, value, T) at t0 and not cleared or set again
\* since is servable at t0 + T - 1 (has is true, get returns the value) and is
\* not servable at t0 + T + 1 (has is false, get returns null).
C2_ServableUntilExpiry ==
  \A k \in CacheKeys :
    lastSet[k].live =>
      /\ cNow = lastSet[k].t0 + lastSet[k].ttl - 1 =>
           /\ hasResult(Cache, k, cNow)
           /\ getResult(Cache, k, cNow) = lastSet[k].value
      /\ cNow = lastSet[k].t0 + lastSet[k].ttl + 1 =>
           /\ ~hasResult(Cache, k, cNow)
           /\ getResult(Cache, k, cNow) = "null"

\* C16: at every instant, the instant now = expiryTime included, get(key)
\* returns the stored data exactly when has(key) is true.
C16_GetIffHas ==
  \A k \in CacheKeys :
    hasResult(Cache, k, cNow) <=> getResult(Cache, k, cNow) # "null"

\* this step is a call of get, has or set
IsReadOrWriteStep ==
  /\ cNow' = cNow
  /\ cacheEvent'.op \in { "get", "has", "set" }

\* C17: when get, has or set returns, neither the in-memory store nor the
\* persisted copy holds an entry whose expiryTime is earlier than now.
C17_SweepOnEveryAccess ==
  [][ IsReadOrWriteStep =>
        /\ \A k \in DOMAIN cacheStore' : ~(cacheStore'[k].expiryTime < cNow')
        /\ lsItem'.present =>
             \A k \in DOMAIN lsItem'.store : ~(lsItem'.store[k].expiryTime < cNow')
    ]_vars

\* C26: in every environment and after every sequence of operations, get(k)
\* returns the value of the most recent set(k, v, d) not followed by clear(k)
\* or clearAll() while now is before its expiry, and null otherwise; operations
\* on other keys do not change it.
C26_MapWithExpiry ==
  \A k \in CacheKeys :
    getResult(Cache, k, cNow) =
      IF lastSet[k].live /\ cNow < lastSet[k].t0 + lastSet[k].ttl
      THEN lastSet[k].value
      ELSE "null"

\* ===========================================================================
\* hooks: useDataFetcher
\* ===========================================================================
\* One mounted instance of the hook, as useWeatherData builds it: the key is
\* null while the city is empty, the cache duration is CACHE_DURATIONS.WEATHER.
\* Effects run in the browser only, so the hook lives where a window exists.
HookKeys == CacheKeys \cup { "null" }
HookCacheDuration == CACHE_DURATIONS.WEATHER
FetchErrors == { "Server error 500" }

\* fetchData(force) that never consults the cache
fetchDataAlwaysForced(force, key) ==
  IF key = "null"
  THEN [cache |-> Cache, data |-> hookData, loading |-> hookLoading,
        error |-> hookError, calls |-> 0, fresh |-> FALSE]
  ELSE [cache |-> Cache, data |-> hookData, loading |-> TRUE, error |-> "null",
        calls |-> 1, fresh |-> hasResult(Cache, key, cNow)]

\* fetchData(force) up to the await of fetcher(): the cache and the hook state
\* it leaves, and whether it called the fetcher; `fresh` is what has(key) says
\* at the moment of the call
fetchData(force, key) ==
  LET fresh == hasResult(Cache, key, cNow)
      afterHas == hasState(Cache, key, cNow)
      cachedData == getResult(afterHas, key, cNow)
      afterGet == getState(afterHas, key, cNow)
  IN IF key = "null"
     THEN [cache |-> Cache, data |-> hookData, loading |-> hookLoading,
           error |-> hookError, calls |-> 0, fresh |-> FALSE]
     ELSE IF ~force /\ fresh /\ cachedData # "null"
     THEN [cache |-> afterGet, data |-> cachedData, loading |-> hookLoading,
           error |-> hookError, calls |-> 0, fresh |-> TRUE]
     ELSE [cache |-> IF force THEN Cache ELSE IF fresh THEN afterGet ELSE afterHas,
           data |-> hookData, loading |-> TRUE, error |-> "null", calls |-> 1,
           fresh |-> fresh]

\* the state changes of one fetchData(force) call made with the closure's key
RunFetchData(op, force, key) ==
  LET r == fetchData(force, key)
  IN /\ Become(r.cache)
     /\ hookData' = r.data
     /\ hookLoading' = r.loading
     /\ hookError' = r.error
     /\ fetcherCalls' = fetcherCalls + r.calls
     /\ inflight' = IF r.calls = 1
                    THEN inflight \cup { [id |-> fetcherCalls + 1, key |-> key,
                                          force |-> force] }
                    ELSE inflight
     /\ opCount' = opCount + 1
     /\ hookEvent' = [op |-> op, key |-> key, fresh |-> r.fresh, force |-> force,
                      id |-> IF r.calls = 1 THEN fetcherCalls + 1 ELSE 0,
                      result |-> "null"]

\* useEffect: mount, or a render with a changed key / dependencies
HookEffect(key) ==
  /\ opCount < MaxOps
  /\ key # hookKey
  /\ hookKey' = key
  /\ RunFetchData("effect", FALSE, key)
  /\ UNCHANGED <<cNow, ticks, cacheEvent, lastSet>> /\ EnvUnchanged

\* a refresh that calls fetchData(false)
HookRefreshUnforced ==
  /\ opCount < MaxOps
  /\ hookKey # "unmounted"
  /\ RunFetchData("refresh", FALSE, hookKey)
  /\ UNCHANGED <<hookKey, cNow, ticks, cacheEvent, lastSet>> /\ EnvUnchanged

\* refresh: () => fetchData(true)
HookRefresh ==
  /\ opCount < MaxOps
  /\ hookKey # "unmounted"
  /\ RunFetchData("refresh", TRUE, hookKey)
  /\ UNCHANGED <<hookKey, cNow, ticks, cacheEvent, lastSet>> /\ EnvUnchanged

\* the awaited fetcher() resolves: setData, ClientCache.set, finally
FetchResolve(f, result) ==
  /\ f \in inflight
  /\ Become(set(Cache, f.key, result, HookCacheDuration, cNow))
  /\ hookData' = result
  /\ hookLoading' = FALSE
  /\ inflight' = inflight \ {f}
  /\ hookEvent' = [op |-> "resolve", key |-> f.key,
                   fresh |-> hasResult(Cache, f.key, cNow),
                   force |-> f.force, id |-> f.id, result |-> result]
  /\ UNCHANGED <<hookKey, hookError, fetcherCalls, opCount>>
  /\ UNCHANGED <<cNow, ticks, cacheEvent, lastSet>> /\ EnvUnchanged

\* the awaited fetcher() rejects: setError, finally
FetchReject(f, message) ==
  /\ f \in inflight
  /\ hookError' = message
  /\ hookLoading' = FALSE
  /\ inflight' = inflight \ {f}
  /\ hookEvent' = [op |-> "reject", key |-> f.key, fresh |-> FALSE,
                   force |-> f.force, id |-> f.id, result |-> "null"]
  /\ UNCHANGED <<hookKey, hookData, fetcherCalls, opCount>>
  /\ UNCHANGED <<cacheStore, isInitialized, lsItem>>
  /\ UNCHANGED <<cNow, ticks, cacheEvent, lastSet>> /\ EnvUnchanged

HookTick(d) ==
  /\ ClockTick(d)
  /\ UNCHANGED <<hookKey, hookData, hookLoading, hookError, inflight,
                 fetcherCalls, opCount, hookEvent>>

\* a page load: the module state and the component state start over and the
\* pending callbacks of the old page are gone
HookPageLoad ==
  /\ hookKey # "unmounted"
  /\ Become(reloaded(Cache))
  /\ hookKey' = "unmounted"
  /\ hookData' = "null" /\ hookLoading' = FALSE /\ hookError' = "null"
  /\ inflight' = {}
  /\ hookEvent' = [NoHookEvent EXCEPT !.op = "load"]
  /\ UNCHANGED <<fetcherCalls, opCount>>
  /\ UNCHANGED <<cNow, ticks, cacheEvent, lastSet>> /\ EnvUnchanged

HookInit ==
  /\ KeyIdle /\ FcIdle /\ HookIdle /\ WeatherIdle /\ GeminiIdle /\ GithubIdle
  /\ RepoIdle /\ RouteIdle
  /\ CacheStart
  /\ envWindow

HookNext ==
  /\ \/ \E k \in HookKeys : HookEffect(k)
     \/ HookRefresh
     \/ \E f \in inflight, r \in CacheData : FetchResolve(f, r)
     \/ \E f \in inflight, m \in FetchErrors : FetchReject(f, m)
     \/ \E d \in TickSteps : HookTick(d)
     \/ HookPageLoad
  /\ UNCHANGED <<panelFilter, panelTimeFilter>>
  /\ UNCHANGED <<keyVars, fcVars, weatherVars, geminiVars, githubVars,
               repoVars, routeVars>>

SpecHook == HookInit /\ [][HookNext]_vars

\* the entry set() writes for a fetch that resolved now
ResolvedEntry(result) ==
  [data |-> result, timestamp |-> cNow, expiryTime |-> cNow + CACHE_DURATIONS.WEATHER]

\* this step is a call of refresh() / a run of the effect / a resolved fetch
IsRefreshStep == opCount' = opCount + 1 /\ hookEvent'.op = "refresh"
IsEffectStep == opCount' = opCount + 1 /\ hookEvent'.op = "effect"
IsResolveStep ==
  /\ hookEvent'.op = "resolve"
  /\ \E f \in inflight : f.id = hookEvent'.id /\ f \notin inflight'

\* C9: refresh() with a non-null key always invokes the fetcher, also when
\* has(key) is true, and when the fetch resolves the entry of the key is
\* overwritten with the new result and the expiry now + cacheDuration.
C9_RefreshBypassesCache ==
  [][ /\ (IsRefreshStep /\ hookKey # "null") =>
           /\ fetcherCalls' = fetcherCalls + 1
           /\ inflight' = inflight \cup { [id |-> fetcherCalls + 1, key |-> hookKey,
                                           force |-> TRUE] }
      /\ (IsResolveStep /\ hookEvent'.force) =>
           /\ hookEvent'.key \in DOMAIN cacheStore'
           /\ cacheStore'[hookEvent'.key] = ResolvedEntry(hookEvent'.result)
    ]_vars

\* a forced fetch resolved while has(key) was true and replaced that entry
C9_Witness ==
  /\ hookEvent.op = "resolve" /\ hookEvent.force /\ hookEvent.fresh
  /\ hookEvent.key \in DOMAIN cacheStore
  /\ cacheStore[hookEvent.key].data = hookEvent.result
  /\ cacheStore[hookEvent.key].timestamp > 0
  /\ cacheStore[hookEvent.key].expiryTime = cNow + CACHE_DURATIONS.WEATHER

\* C10: a run of the effect with a non-null key invokes the fetcher exactly
\* when has(key) is false: on a hit data is set from the cache, isLoading is
\* not touched and no fetch starts; on a miss isLoading is set and the fetcher
\* is invoked once; a resolved fetch stores its result under its key with the
\* hook's cacheDuration.
C10_EffectFetchesIffMiss ==
  [][ /\ (IsEffectStep /\ hookKey' # "null") =>
           IF hasResult(Cache, hookKey', cNow)
           THEN /\ fetcherCalls' = fetcherCalls
                /\ inflight' = inflight
                /\ hookLoading' = hookLoading
                /\ hookData' = getResult(Cache, hookKey', cNow)
           ELSE /\ fetcherCalls' = fetcherCalls + 1
                /\ hookLoading' = TRUE
                /\ Cardinality(inflight' \ inflight) = 1
                /\ \A f \in inflight' \ inflight : f.key = hookKey' /\ ~f.force
      /\ (IsResolveStep /\ ~hookEvent'.force) =>
           /\ hookEvent'.key \in DOMAIN cacheStore'
           /\ cacheStore'[hookEvent'.key] = ResolvedEntry(hookEvent'.result)
    ]_vars

\* the effect ran on a hit: data came from the cache and no fetch started
C10_Witness ==
  /\ hookEvent.op = "effect" /\ hookEvent.fresh /\ hookEvent.id = 0
  /\ hookData \in CacheData
  /\ ~hookLoading
  /\ inflight = {}
  /\ fetcherCalls >= 1

\* the hook is mounted with a key
HookHasKey == hookKey # "unmounted" /\ hookKey # "null"

\* C22: once no fetch is in flight, the data the hook exposes was not put
\* there by the response of a fetch started for another key than the current
\* one: the last response applied is one for the current key.
C22_DataOfCurrentKey ==
  (HookHasKey /\ inflight = {} /\ hookEvent.op = "resolve"
     /\ hookData = hookEvent.result) =>
    hookEvent.key = hookKey

\* C23: isLoading is true in every state in which a fetch started by the
\* hook has not settled.
C23_LoadingWhileInFlight ==
  inflight # {} => hookLoading

\* C24: after the effect served the data of the current key from a fresh
\* cache entry, error is null.
C24_NoErrorAfterCacheHit ==
  (HookHasKey /\ hookEvent.op = "effect" /\ hookEvent.fresh /\ hookEvent.id = 0) =>
    hookError = "null"

\* ---------------------------------------------------------------------------
\* project panel: GitHubProjectHighlight with useGitHubProjects
\* ---------------------------------------------------------------------------
\* The panel in a browser with a working localStorage.
PanelFilters == { "all", "trending", "bookmarked" }
PanelTimeFilters == { "daily", "weekly" }

\* the first argument the panel passes to useGitHubProjects
PanelFilterArgument(filter) ==
  IF filter = "bookmarked" THEN "undefined" ELSE filter

\* useGitHubProjects(filter = 'all', undefined, timeFilter, undefined): the key
\* it hands to useDataFetcher; the default takes the place of an undefined
\* argument, and generateCacheKey puts filter before timeFilter
useGitHubProjectsKey(filterArgument, timeFilter) ==
  LET filter == IF filterArgument = "undefined" THEN "all" ELSE filterArgument
      cacheKey == "/api/github?filter=" \o filter \o "&timeFilter=" \o timeFilter
      shouldFetch == filter # "bookmarked"
  IN IF shouldFetch THEN cacheKey ELSE "null"

PanelInit ==
  /\ KeyIdle /\ FcIdle /\ WeatherIdle /\ GeminiIdle /\ GithubIdle
  /\ RepoIdle /\ RouteIdle
  /\ CacheStart
  /\ envWindow /\ ~envReadThrows /\ ~envWriteThrows
  /\ hookKey = "unmounted" /\ hookData = "null" /\ hookLoading = FALSE
  /\ hookError = "null" /\ inflight = {} /\ fetcherCalls = 0 /\ opCount = 0
  /\ hookEvent = NoHookEvent
  /\ panelFilter = "all" /\ panelTimeFilter = "daily"

\* a render of the panel: the effect of useDataFetcher runs when the key and
\* the dependencies it is built from have changed
PanelRender(filter, timeFilter) ==
  LET key == useGitHubProjectsKey(PanelFilterArgument(filter), timeFilter)
  IN IF key # hookKey
     THEN HookEffect(key)
     ELSE /\ UNCHANGED <<hookKey, hookData, hookLoading, hookError, inflight,
                         fetcherCalls, opCount, hookEvent>>
          /\ UNCHANGED cacheVars

PanelMount ==
  /\ hookKey = "unmounted"
  /\ PanelRender(panelFilter, panelTimeFilter)
  /\ UNCHANGED <<panelFilter, panelTimeFilter>>

handleFilterChange(newFilter) ==
  /\ hookKey # "unmounted"
  /\ newFilter # panelFilter
  /\ panelFilter' = newFilter
  /\ PanelRender(newFilter, panelTimeFilter)
  /\ UNCHANGED panelTimeFilter

\* the time tabs are rendered while the filter is 'trending'
setTimeFilter(timeFilter) ==
  /\ hookKey # "unmounted"
  /\ panelFilter = "trending"
  /\ timeFilter # panelTimeFilter
  /\ panelTimeFilter' = timeFilter
  /\ PanelRender(panelFilter, timeFilter)
  /\ UNCHANGED panelFilter

\* refreshView: bookmarks are read again from local storage, every other
\* view calls the refresh of the hook
refreshView ==
  /\ hookKey # "unmounted"
  /\ IF panelFilter = "bookmarked"
     THEN /\ UNCHANGED <<hookKey, hookData, hookLoading, hookError, inflight,
                         fetcherCalls, opCount, hookEvent>>
          /\ UNCHANGED cacheVars
     ELSE HookRefresh
  /\ UNCHANGED <<panelFilter, panelTimeFilter>>

PanelNext ==
  /\ \/ PanelMount
     \/ \E f \in PanelFilters : handleFilterChange(f)
     \/ \E t \in PanelTimeFilters : setTimeFilter(t)
     \/ refreshView
     \/ \E f \in inflight, r \in CacheData :
          FetchResolve(f, r) /\ UNCHANGED <<panelFilter, panelTimeFilter>>
     \/ \E f \in inflight, m \in FetchErrors :
          FetchReject(f, m) /\ UNCHANGED <<panelFilter, panelTimeFilter>>
     \/ \E d \in TickSteps : HookTick(d) /\ UNCHANGED <<panelFilter, panelTimeFilter>>
  /\ UNCHANGED <<keyVars, fcVars, weatherVars, geminiVars, githubVars,
               repoVars, routeVars>>

SpecPanel == PanelInit /\ [][PanelNext]_vars

\* C30: a step that leaves the panel's filter at 'bookmarked' does not run
\* fetchData with a key: it calls no fetcher (no request to /api/github) and
\* does not consult or change the client cache.
C30_BookmarkedIsLocal ==
  [][ (panelFilter' = "bookmarked" /\ opCount' # opCount) =>
        /\ hookEvent'.key = "null"
        /\ fetcherCalls' = fetcherCalls
        /\ UNCHANGED <<cacheStore, isInitialized, lsItem>>
    ]_vars

\* ===========================================================================
\* combined weather route: GET /api/weather
\* ===========================================================================
\* The handler runs to its first await in one step, and from the settlement of
\* one awaited upstream call to the next await or the response in one step.

\* CACHE_DURATION of the combined weather route, in milliseconds
WeatherCacheDuration == 10 * 60 * 1000

\* `${city}-${units}`
WeatherCacheKey(city, units) == city \o "-" \o units

\* the test of the cache check with half the duration
WeatherCacheFreshHalf(cache, cacheKey, now) ==
  /\ cacheKey \in DOMAIN cache
  /\ (now - cache[cacheKey].timestamp) < WeatherCacheDuration \div 2

\* weatherCache[cacheKey] && (now - weatherCache[cacheKey].timestamp) < CACHE_DURATION
WeatherCacheFresh(cache, cacheKey, now) ==
  /\ cacheKey \in DOMAIN cache
  /\ (now - cache[cacheKey].timestamp) < WeatherCacheDuration

\* what the upstream can answer to the current weather call: a 200 body with
\* or without coordinates, a status below 500 that axios resolves, a status
\* from 500 on that axios rejects with a response, no response at all
CurrentBodies == { [name |-> "cw1", coord |-> TRUE], [name |-> "cw2", coord |-> FALSE] }
UpstreamFailures ==
  { [kind |-> "status", status |-> 404],
    [kind |-> "rejected", status |-> 500],
    [kind |-> "network", status |-> 0] }
CurrentOutcomes ==
  { [kind |-> "ok", status |-> 200, data |-> b] : b \in CurrentBodies }
    \cup { [kind |-> f.kind, status |-> f.status, data |-> [name |-> "none", coord |-> FALSE]]
             : f \in UpstreamFailures }

\* what the upstream can answer to the forecast call; a 200 body without a
\* list makes processForecastList throw
RawForecasts ==
  { [list |-> << [dt |-> DayBase + 21 * 3600, temp |-> 18, icon |-> <<"0", "2", "n">>],
                 [dt |-> DayBase + 24 * 3600, temp |-> 10, icon |-> <<"0", "2", "n">>] >>,
     timezone |-> 3 * 3600] }
NoForecast == [list |-> <<>>, timezone |-> 0]
ForecastOutcomes ==
  { [kind |-> "ok", status |-> 200, data |-> f] : f \in RawForecasts }
    \cup { [kind |-> f.kind, status |-> f.status, data |-> NoForecast] : f \in UpstreamFailures }
    \cup { [kind |-> "malformed", status |-> 200, data |-> NoForecast] }

Cities == { "", "London" }
UnitsParams == { "null", "imperial" }
ApiKeys == { "undefined", "your_openweathermap_api_key", "owm-key" }

NoBody == [error |-> "none"]
NoCurrent == [name |-> "none", coord |-> FALSE]

IdleRequest ==
  [pc |-> "idle", city |-> "", cacheKey |-> "", now |-> 0,
   current |-> NoCurrent, byCoords |-> FALSE, calls |-> 0, overlapped |-> FALSE]

DoneRequest == [IdleRequest EXCEPT !.pc = "done"]

\* no upstream call settled in the step that responded
NoUpstream == [call |-> "none", kind |-> "none", status |-> 0]
Settled(call, outcome) == [call |-> call, kind |-> outcome.kind, status |-> outcome.status]

NoResponse ==
  [cacheKey |-> "", hit |-> FALSE, calls |-> 0, status |-> 0, body |-> NoBody,
   upstream |-> NoUpstream]

\* an error status that ignores what the upstream answered
UpstreamErrorStatusFlat(outcome) ==
  IF outcome.kind = "network" THEN 503 ELSE 500

\* the status of the error response for an upstream call that did not give
\* 200: the upstream status when there is one, 503 when there is no response
UpstreamErrorStatus(outcome) ==
  IF outcome.kind = "network" THEN 503 ELSE outcome.status

\* an entry stamped with the time of the write
WeatherEntryStampedAtWrite(req, data) == [data |-> data, timestamp |-> sNow]

\* { data: combinedData, timestamp: now }, now being the local of the cache check
WeatherEntry(req, data) == [data |-> data, timestamp |-> req.now]

\* a write that keeps the entry a key already has
WeatherCacheWriteIfAbsent(cache, cacheKey, entry) ==
  IF cacheKey \in DOMAIN cache THEN cache ELSE Put(cache, cacheKey, entry)

\* weatherCache[cacheKey] = entry
WeatherCacheWrite(cache, cacheKey, entry) == Put(cache, cacheKey, entry)

ReqIds == 1..MaxReqs

InFlight(r) == wReq[r].pc \in { "awaitCurrent", "awaitForecast" }

WeatherInit ==
  /\ KeyIdle /\ FcIdle /\ CacheIdle /\ HookIdle /\ GeminiIdle /\ GithubIdle
  /\ RepoIdle /\ RouteIdle
  /\ sNow = 0 /\ sTicks = 0
  /\ weatherCache = <<>>
  /\ owmApiKey \in ApiKeys
  /\ wReq = [r \in ReqIds |-> IdleRequest]
  /\ wLast = NoResponse
  /\ wDone = {}
  /\ wFirst = <<>>

\* NextResponse.json(body, {status}) by request r, whose locals are req
Respond(r, req, hit, status, body, upstream) ==
  /\ wLast' = [cacheKey |-> req.cacheKey, hit |-> hit, calls |-> req.calls,
               status |-> status, body |-> body, upstream |-> upstream]
  /\ wDone' = IF ~hit /\ status = 200
              THEN wDone \cup { [cacheKey |-> req.cacheKey, now |-> req.now,
                                 body |-> body, overlapped |-> req.overlapped] }
              ELSE wDone

\* GET up to the first await: parameters, cache check, API key check, and the
\* call of the current weather endpoint
WeatherStart(r, cityParam, unitsParam) ==
  /\ wReq[r].pc = "idle"
  /\ \A q \in ReqIds : q < r => wReq[q].pc # "idle"
  /\ LET units == IF unitsParam = "null" THEN "metric" ELSE unitsParam
         cacheKey == WeatherCacheKey(cityParam, units)
         others == { q \in ReqIds \ {r} : InFlight(q) /\ wReq[q].cacheKey = cacheKey }
         req == [wReq[r] EXCEPT !.city = cityParam]
         keyed == [req EXCEPT !.cacheKey = cacheKey, !.now = sNow]
         first == IF cacheKey \in DOMAIN wFirst THEN wFirst
                  ELSE Put(wFirst, cacheKey, [r |-> r, now |-> sNow])
     IN IF cityParam = ""
        THEN /\ Respond(r, req, FALSE, 400, [error |-> "City parameter is required"], NoUpstream)
             /\ wReq' = [wReq EXCEPT ![r] = DoneRequest]
             /\ wFirst' = wFirst
        ELSE IF WeatherCacheFresh(weatherCache, cacheKey, sNow)
        THEN /\ Respond(r, keyed, TRUE, 200, weatherCache[cacheKey].data, NoUpstream)
             /\ wReq' = [wReq EXCEPT ![r] = DoneRequest]
             /\ wFirst' = wFirst
        ELSE IF owmApiKey = "undefined" \/ owmApiKey = "your_openweathermap_api_key"
        THEN /\ Respond(r, keyed, FALSE, 500,
                        [error |-> "OpenWeatherMap API key is not configured"], NoUpstream)
             /\ wReq' = [wReq EXCEPT ![r] = DoneRequest]
             /\ wFirst' = first
        ELSE /\ wReq' = [q \in ReqIds |->
                           IF q = r
                           THEN [keyed EXCEPT !.pc = "awaitCurrent", !.calls = 1,
                                              !.overlapped = (others # {})]
                           ELSE IF q \in others
                           THEN [wReq[q] EXCEPT !.overlapped = TRUE]
                           ELSE wReq[q]]
             /\ wFirst' = first
             /\ UNCHANGED <<wLast, wDone>>
  /\ UNCHANGED <<sNow, sTicks, weatherCache, owmApiKey>>

\* the current weather call settles: step 1 after its await, then step 2 up to
\* the await of the forecast call
WeatherCurrentSettled(r, outcome) ==
  /\ wReq[r].pc = "awaitCurrent"
  /\ IF outcome.kind = "ok"
     THEN /\ wReq' = [wReq EXCEPT ![r] =
                        [@ EXCEPT !.current = outcome.data,
                                  !.byCoords = outcome.data.coord,
                                  !.pc = "awaitForecast", !.calls = 2]]
          /\ UNCHANGED <<wLast, wDone>>
     ELSE /\ wReq' = [wReq EXCEPT ![r] = DoneRequest]
          /\ IF outcome.kind = "status"
             THEN Respond(r, wReq[r], FALSE, UpstreamErrorStatus(outcome),
                          [error |-> "upstream error body"], Settled("current", outcome))
             ELSE IF outcome.kind = "network"
             THEN Respond(r, wReq[r], FALSE, UpstreamErrorStatus(outcome),
                          [error |-> "Network error fetching current weather"],
                          Settled("current", outcome))
             ELSE Respond(r, wReq[r], FALSE, UpstreamErrorStatus(outcome),
                          [error |-> "Failed to process weather request"],
                          Settled("current", outcome))
  /\ UNCHANGED <<sNow, sTicks, weatherCache, owmApiKey, wFirst>>

\* the forecast call settles: the rest of step 2 and the cache write
WeatherForecastSettled(r, outcome) ==
  /\ wReq[r].pc = "awaitForecast"
  /\ LET req == wReq[r]
         dailySummaries == processForecastList(outcome.data.list, outcome.data.timezone)
         combinedData ==
           [current |-> req.current,
            forecast |-> [daily |-> SliceFront(dailySummaries, 7),
                          timezone_offset |-> outcome.data.timezone]]
     IN /\ wReq' = [wReq EXCEPT ![r] = DoneRequest]
        /\ IF outcome.kind = "ok"
           THEN /\ weatherCache' = WeatherCacheWrite(weatherCache, req.cacheKey,
                                                     WeatherEntry(req, combinedData))
                /\ Respond(r, req, FALSE, 200, combinedData, Settled("forecast", outcome))
           ELSE /\ weatherCache' = weatherCache
                /\ IF outcome.kind = "status"
                   THEN Respond(r, req, FALSE, UpstreamErrorStatus(outcome),
                                [error |-> "upstream error body"],
                                Settled("forecast", outcome))
                   ELSE IF outcome.kind = "network"
                   THEN Respond(r, req, FALSE, UpstreamErrorStatus(outcome),
                                [error |-> "Network error fetching forecast data"],
                                Settled("forecast", outcome))
                   ELSE IF outcome.kind = "rejected"
                   THEN Respond(r, req, FALSE, UpstreamErrorStatus(outcome),
                                [error |-> "Failed to process weather request"],
                                Settled("forecast", outcome))
                   ELSE Respond(r, req, FALSE, 500,
                                [error |-> "Failed to process weather request"],
                                Settled("forecast", outcome))
  /\ UNCHANGED <<sNow, sTicks, owmApiKey, wFirst>>

ServerTick(d) ==
  /\ sTicks < MaxServerTicks
  /\ sNow' = sNow + d
  /\ sTicks' = sTicks + 1
  /\ UNCHANGED <<weatherCache, owmApiKey, wReq, wLast, wDone, wFirst>>

WeatherNext ==
  /\ \/ \E r \in ReqIds, c \in Cities, u \in UnitsParams : WeatherStart(r, c, u)
     \/ \E r \in ReqIds, o \in CurrentOutcomes : WeatherCurrentSettled(r, o)
     \/ \E r \in ReqIds, o \in ForecastOutcomes : WeatherForecastSettled(r, o)
     \/ \E d \in TickSteps : ServerTick(d)
  /\ UNCHANGED <<keyVars, fcVars, cacheVars, hookVars, geminiVars, githubVars,
               repoVars, routeVars>>

SpecWeather == WeatherInit /\ [][WeatherNext]_vars

\* every way an upstream call can fail to give 200: the statuses axios
\* resolves (validateStatus: status < 500), the statuses it rejects with a
\* response, and no response at all
UpstreamErrors ==
  UpstreamFailures
    \cup { [kind |-> "status", status |-> st] : st \in { 400, 401, 429 } }
    \cup { [kind |-> "rejected", status |-> 502] }
CurrentErrorOutcomes ==
  CurrentOutcomes
    \cup { [kind |-> f.kind, status |-> f.status, data |-> NoCurrent] : f \in UpstreamErrors }
ForecastErrorOutcomes ==
  ForecastOutcomes
    \cup { [kind |-> f.kind, status |-> f.status, data |-> NoForecast] : f \in UpstreamErrors }

\* the handler under every upstream failure, the clock standing still
WeatherErrorsNext ==
  /\ \/ \E r \in ReqIds, c \in Cities, u \in UnitsParams : WeatherStart(r, c, u)
     \/ \E r \in ReqIds, o \in CurrentErrorOutcomes : WeatherCurrentSettled(r, o)
     \/ \E r \in ReqIds, o \in ForecastErrorOutcomes : WeatherForecastSettled(r, o)
  /\ UNCHANGED <<keyVars, fcVars, cacheVars, hookVars, geminiVars, githubVars,
               repoVars, routeVars>>

SpecWeatherErrors == WeatherInit /\ [][WeatherErrorsNext]_vars

\* request r sends its response in this step
Responds(r) == wReq[r].pc # "done" /\ wReq'[r].pc = "done"

\* request r starts in this step
Starts(r) == wReq[r].pc = "idle" /\ wReq'[r].pc # "idle"

\* the value of `now` in the request that responds in this step
NowOf(r) == IF wReq[r].pc = "idle" THEN sNow ELSE wReq[r].now

\* the cache key of the request r that starts in this step
StartedKey(r) == IF wReq'[r].pc = "done" THEN wLast'.cacheKey ELSE wReq'[r].cacheKey

C12_UpstreamErrorStatus ==
  wLast.upstream.call \in { "current", "forecast" } =>
    /\ (wLast.upstream.kind \in { "status", "rejected" }) =>
         /\ wLast.status = wLast.upstream.status
         /\ wLast.status # 200
         /\ ~wLast.hit
    /\ wLast.upstream.kind = "network" =>
         /\ wLast.status = 503
         /\ ~wLast.hit

\* the forecast call was answered 429 after the current weather call gave 200,
\* and the request ended with 429
C12_Witness ==
  /\ wLast.upstream = [call |-> "forecast", kind |-> "status", status |-> 429]
  /\ wLast.status = 429
  /\ wLast.calls = 2

\* request r answers 200 with what it fetched itself in this step
RespondsFetched(r) == Responds(r) /\ ~wLast'.hit /\ wLast'.status = 200

\* C21: a request that misses makes its own upstream calls although another
\* request for its key is in flight, and answers with the payload of its own
\* two calls; the cache changes only in the step of such an answer and then
\* holds, at that key, the payload and the `now` of the request that wrote
\* last; every entry the cache ever holds has both its current and its
\* forecast part.
C21_LastWriteWins ==
  [][ /\ \A r \in ReqIds :
           /\ (Starts(r) /\ wReq'[r].pc # "done") =>
                wReq'[r].pc = "awaitCurrent" /\ wReq'[r].calls = 1
           /\ (Starts(r) /\ StartedKey(r) # ""
                 /\ ~WeatherCacheFresh(weatherCache, StartedKey(r), sNow)
                 /\ owmApiKey = "owm-key") =>
                wReq'[r].pc = "awaitCurrent"
           /\ RespondsFetched(r) =>
                /\ wLast'.calls = 2
                /\ wLast'.body.current = wReq[r].current
                /\ DOMAIN weatherCache' = DOMAIN weatherCache \cup { wLast'.cacheKey }
                /\ weatherCache'[wLast'.cacheKey] =
                     [data |-> wLast'.body, timestamp |-> wReq[r].now]
                /\ \A k \in DOMAIN weatherCache \ { wLast'.cacheKey } :
                     weatherCache'[k] = weatherCache[k]
      /\ (\A r \in ReqIds : ~RespondsFetched(r)) => weatherCache' = weatherCache
      /\ \A k \in DOMAIN weatherCache' :
           /\ weatherCache'[k].data.current \in CurrentBodies
           /\ weatherCache'[k].data.forecast.daily # <<>>
    ]_vars

\* two requests for one key overlapped, fetched different payloads, each
\* answered with its own, and the cache holds the one answered last
C21_Witness ==
  \E h1, h2 \in wDone :
    /\ h1.cacheKey = h2.cacheKey /\ h1.overlapped /\ h2.overlapped
    /\ h1.body # h2.body
    /\ \A r \in ReqIds : wReq[r].pc = "done"
    /\ wLast.body = h2.body /\ wLast.status = 200 /\ ~wLast.hit
    /\ weatherCache[h2.cacheKey].data = h2.body

\* the entry of a key is replaced in this step by one with an older timestamp
TimestampDecreases ==
  \E k \in DOMAIN weatherCache :
    k \in DOMAIN weatherCache' /\ weatherCache'[k].timestamp < weatherCache[k].timestamp

\* C25 as stated: the timestamp of the entry of a key never decreases.
C25_AsStated == [][ ~TimestampDecreases ]_vars

\* C25: an entry carries the time at which the request that wrote it made its
\* cache check; the timestamp of a key decreases only when the writer
\* overlapped with another request for the key, and never otherwise.
C25_TimestampOfWriter ==
  [][ \A r \in ReqIds :
        RespondsFetched(r) =>
          /\ weatherCache'[wLast'.cacheKey].timestamp = wReq[r].now
          /\ TimestampDecreases => wReq[r].overlapped
    ]_vars

\* a request that started first and finished last put its older timestamp
\* over the entry of the request that overtook it
C25_Witness ==
  \E h1, h2 \in wDone :
    /\ h1.cacheKey = h2.cacheKey /\ h1.overlapped /\ h2.overlapped
    /\ h1.now < h2.now
    /\ wLast.body = h1.body /\ wLast.status = 200 /\ ~wLast.hit
    /\ weatherCache[h1.cacheKey] = [data |-> h1.body, timestamp |-> h1.now]

\* ---------------------------------------------------------------------------
\* generateCacheKey harness
\* ---------------------------------------------------------------------------
Endpoints == { <<"/", "w">>, <<"/", "w", "?", "a", "=", "1">> }
ParamKeys == { <<"a">>, <<"b">>, <<"a", "=", "1", "&", "b">> }
ParamValues ==
  { [t |-> "string", v |-> <<"1">>],
    [t |-> "string", v |-> <<"1", "&", "b", "=", "2">>],
    [t |-> "number", v |-> 2],
    [t |-> "boolean", v |-> TRUE] }

\* an object: a list of entries with pairwise distinct keys
ParamObjects ==
  UNION { { p \in [1..n -> [k : ParamKeys, v : ParamValues]] :
              \A i, j \in 1..n : i # j => p[i].k # p[j].k } : n \in 0..MaxParams }

\* the same key/value pairs, whatever the order
SameEntries(p, q) == Range(p) = Range(q)

KeyInit ==
  /\ FcIdle /\ CacheIdle /\ HookIdle /\ WeatherIdle /\ GeminiIdle /\ GithubIdle
  /\ RepoIdle /\ RouteIdle
  /\ keyPc = "input"
  /\ kEndpoint \in Endpoints
  /\ kParamsA \in ParamObjects
  /\ kParamsB \in ParamObjects
  /\ keyA = <<>> /\ keyB = <<>>

GenerateKeys ==
  /\ keyPc = "input"
  /\ keyA' = generateCacheKey(kEndpoint, kParamsA)
  /\ keyB' = generateCacheKey(kEndpoint, kParamsB)
  /\ keyPc' = "done"
  /\ UNCHANGED <<kEndpoint, kParamsA, kParamsB>>
  /\ UNCHANGED <<fcVars, cacheVars, hookVars, weatherVars, geminiVars, githubVars,
               repoVars, routeVars>>

KeyNext == GenerateKeys

SpecKey == KeyInit /\ [][KeyNext]_vars

\* C3: generateCacheKey does not depend on the insertion order of params:
\* two parameter objects with the same key/value pairs give the same key.
C3_OrderIndependent ==
  (keyPc = "done" /\ SameEntries(kParamsA, kParamsB)) => keyA = keyB

C3_Witness ==
  /\ keyPc = "done"
  /\ SameEntries(kParamsA, kParamsB)
  /\ kParamsA # kParamsB
  /\ Len(kParamsA) = 2
  /\ keyA = keyB

\* C18: generateCacheKey is injective: for one endpoint, two parameter
\* objects give the same key only if they hold the same key/value pairs, also
\* when keys or values contain '?', '&' or '='.
C18_Injective ==
  (keyPc = "done" /\ keyA = keyB) => SameEntries(kParamsA, kParamsB)

\* ===========================================================================
\* AI insight route: POST /api/gemini
\* ===========================================================================
\* A JSON value is its kind and, for an object, the set of its properties that
\* hold a truthy value; `undefined` is a field the body does not have.
Absent == [kind |-> "undefined", props |-> {}]
FalsyValues ==
  { Absent, [kind |-> "null", props |-> {}], [kind |-> "emptyString", props |-> {}] }
JsonString == [kind |-> "string", props |-> {}]
JsonObject(props) == [kind |-> "object", props |-> props]

\* the values tried for each field of the body
ProjectValues ==
  FalsyValues \cup { JsonString, JsonObject({}), JsonObject({"name"}),
                     JsonObject({"name", "description"}) }
WeatherDataValues ==
  FalsyValues \cup { JsonString, JsonObject({}), JsonObject({"weather", "weather0", "name"}),
                     JsonObject({"weather", "weather0", "main"}),
                     JsonObject({"weather", "weather0", "name", "main"}) }
ProjectDataValues ==
  FalsyValues \cup { JsonString, JsonObject({}), JsonObject({"name"}) }

\* the truthiness of a value, and of v.p
Truthy(v) == v.kind \in { "string", "object" }
Prop(v, p) == p \in v.props

\* what request.json() gives: an object with any of the three fields, a JSON
\* primitive, null, or a body that is not JSON
GeminiBodies ==
  { [json |-> "object", project |-> pr, weatherData |-> w, projectData |-> pd]
      : pr \in ProjectValues, w \in WeatherDataValues, pd \in ProjectDataValues }
    \cup { [json |-> j, project |-> Absent, weatherData |-> Absent, projectData |-> Absent]
             : j \in { "primitive", "null", "invalid" } }

\* unset, the value of the README's .env.local example, a key
GeminiKeys == { "undefined", "your_gemini_api_key", "gm-key" }
GeminiBaseUrls == { "undefined", "https://generativelanguage" }

\* how axios.post settles: a 2xx response whose data has the whole path down
\* to the text or lacks a part of it, a rejection that carries a response
\* status, a rejection without a response
GeminiOutcomes ==
  { [kind |-> "resolved", status |-> 200, shape |-> sh]
      : sh \in { "text", "noText", "noParts", "noCandidates", "noData" } }
    \cup { [kind |-> "rejected", status |-> st, shape |-> "none"] : st \in { 400, 429, 503 } }
    \cup { [kind |-> "network", status |-> 0, shape |-> "none"] }

NoGeminiResponse == [status |-> 0, error |-> "none", message |-> "undefined"]
GeminiError(status, error) == [status |-> status, error |-> error, message |-> "undefined"]

\* a mode choice in which a project always selects mode 1
GeminiModeProjectFirst(body) ==
  LET project == Truthy(body.project)
      weatherData == Truthy(body.weatherData)
      projectData == Truthy(body.projectData)
  IN IF project THEN 1
     ELSE IF weatherData /\ projectData /\ ~project THEN 2
     ELSE IF weatherData /\ ~projectData /\ ~project THEN 3
     ELSE 0

\* the if / else-if chain that picks the prompt
GeminiMode(body) ==
  LET project == Truthy(body.project)
      weatherData == Truthy(body.weatherData)
      projectData == Truthy(body.projectData)
  IN IF project /\ ~weatherData /\ ~projectData THEN 1
     ELSE IF weatherData /\ projectData /\ ~project THEN 2
     ELSE IF weatherData /\ ~projectData /\ ~project THEN 3
     ELSE 0

\* the field test of the chosen branch fails
GeminiFieldsMissing(body, mode) ==
  LET w == body.weatherData
  IN CASE mode = 1 -> ~Prop(body.project, "name") \/ ~Prop(body.project, "description")
       [] mode = 2 -> ~Prop(w, "weather") \/ ~Prop(w, "weather0") \/ ~Prop(body.projectData, "name")
       [] mode = 3 -> ~Prop(w, "weather") \/ ~Prop(w, "weather0") \/ ~Prop(w, "name")
       [] OTHER -> FALSE

GeminiFieldsError(mode) ==
  CASE mode = 1 -> "Project name and description are required for project-specific insight"
    [] mode = 2 -> "Required weather and project data fields are missing for global insight"
    [] OTHER -> "Required weather data fields are missing for weather-only insight"

\* the template of the weather prompts reads weatherData.main.temp
GeminiPromptThrows(body, mode) == mode \in {2, 3} /\ ~Prop(body.weatherData, "main")

GeminiInit ==
  /\ KeyIdle /\ FcIdle /\ CacheIdle /\ HookIdle /\ WeatherIdle /\ GithubIdle
  /\ RepoIdle /\ RouteIdle
  /\ geminiApiKey \in GeminiKeys
  /\ geminiBaseUrl \in GeminiBaseUrls
  /\ gPc = "idle"
  /\ gBody = [json |-> "primitive", project |-> Absent, weatherData |-> Absent,
              projectData |-> Absent]
  /\ gMode = 0 /\ gCalls = 0
  /\ gResp = NoGeminiResponse
  /\ qPc = "off" /\ qBody = <<>> /\ qCalls = 0 /\ qResp = <<>>

GeminiRespond(resp) ==
  /\ gPc' = "done"
  /\ gResp' = resp

\* POST up to the await of axios.post
GeminiPost(body) ==
  /\ gPc \in { "idle", "done" }
  /\ gBody' = body
  /\ LET mode == GeminiMode(body)
     IN IF body.json \in { "null", "invalid" }
        THEN /\ gMode' = 0 /\ gCalls' = 0
             /\ GeminiRespond(GeminiError(500, "Failed to generate AI insight"))
        ELSE /\ gMode' = mode
             /\ IF mode = 0
                THEN /\ gCalls' = 0
                     /\ GeminiRespond(GeminiError(400, "Invalid request body. Provide {project}, {weatherData, projectData}, or just {weatherData}."))
                ELSE IF GeminiFieldsMissing(body, mode)
                THEN /\ gCalls' = 0
                     /\ GeminiRespond(GeminiError(400, GeminiFieldsError(mode)))
                ELSE IF GeminiPromptThrows(body, mode)
                THEN /\ gCalls' = 0
                     /\ GeminiRespond(GeminiError(500, "Failed to generate AI insight"))
                ELSE IF geminiApiKey = "undefined" \/ geminiBaseUrl = "undefined"
                THEN /\ gCalls' = 0
                     /\ GeminiRespond(GeminiError(500, "Server configuration error"))
                ELSE /\ gCalls' = 1
                     /\ gPc' = "awaitUpstream"
                     /\ gResp' = NoGeminiResponse
  /\ UNCHANGED <<geminiApiKey, geminiBaseUrl, qPc, qBody, qCalls, qResp>>

\* axios.post settles: the shape check, the text, the catch block
GeminiSettled(outcome) ==
  /\ gPc = "awaitUpstream"
  /\ IF outcome.kind = "resolved"
     THEN IF outcome.shape = "text"
          THEN GeminiRespond([status |-> 200, error |-> "none", message |-> "generated text"])
          ELSE IF outcome.shape = "noText"
          THEN GeminiRespond([status |-> 200, error |-> "none", message |-> "undefined"])
          ELSE GeminiRespond(GeminiError(500, "Failed to generate AI insight"))
     ELSE IF outcome.kind = "rejected"
     THEN GeminiRespond(GeminiError(outcome.status, "Failed to communicate with AI service"))
     ELSE GeminiRespond(GeminiError(500, "Failed to communicate with AI service"))
  /\ UNCHANGED <<geminiApiKey, geminiBaseUrl, gBody, gMode, gCalls>>
  /\ UNCHANGED <<qPc, qBody, qCalls, qResp>>

GeminiNext ==
  /\ \/ \E b \in GeminiBodies : GeminiPost(b)
     \/ \E o \in GeminiOutcomes : GeminiSettled(o)
  /\ UNCHANGED <<keyVars, fcVars, cacheVars, hookVars, weatherVars, githubVars,
               repoVars, routeVars>>

SpecGemini == GeminiInit /\ [][GeminiNext]_vars

\* the fields of the body that are present with a truthy value
TruthyFields ==
  { f \in { "project", "weatherData", "projectData" } : Truthy(gBody[f]) }

\* the three combinations that select a prompt mode
ModeOfFields(fields) ==
  CASE fields = { "project" } -> 1
    [] fields = { "weatherData", "projectData" } -> 2
    [] fields = { "weatherData" } -> 3
    [] OTHER -> 0

\* C4: for a body that is a JSON object the mode is the one of the truthy
\* fields, {project}, {weatherData, projectData} or {weatherData}; with every
\* other combination, project and weatherData both truthy included, the
\* request ends with status 400 and makes no call to the generative endpoint.
C4_ModeExclusive ==
  (gPc # "idle" /\ gBody.json \in { "object", "primitive" }) =>
    /\ gMode = ModeOfFields(TruthyFields)
    /\ ModeOfFields(TruthyFields) = 0 =>
         /\ gPc = "done"
         /\ gResp.status = 400
         /\ gCalls = 0
    /\ gCalls = 1 => ModeOfFields(TruthyFields) # 0

\* a body with project and weatherData both truthy was rejected with 400
\* while the key and the URL are configured
C4_Witness ==
  /\ gPc = "done"
  /\ gBody.json = "object"
  /\ Truthy(gBody.project) /\ Truthy(gBody.weatherData)
  /\ Prop(gBody.project, "name") /\ Prop(gBody.project, "description")
  /\ geminiApiKey # "undefined" /\ geminiBaseUrl # "undefined"
  /\ gResp.status = 400
  /\ gCalls = 0

\* ===========================================================================
\* repository question route: POST /api/gemini/question
\* ===========================================================================
\* The generated text is a sequence of characters: the handler edits it
\* before it answers.
Whitespace == { " ", "\n" }

\* .replace(/\*\*/g, '')
RECURSIVE RemoveDoubleAsterisks(_)
RemoveDoubleAsterisks(t) ==
  IF Len(t) = 0 THEN <<>>
  ELSE IF Len(t) >= 2 /\ t[1] = "*" /\ t[2] = "*"
  THEN RemoveDoubleAsterisks(SubSeq(t, 3, Len(t)))
  ELSE <<t[1]>> \o RemoveDoubleAsterisks(Tail(t))

\* the index at which a match of /\s\*([^*]+)\*/ that starts at t[1] ends,
\* 0 when there is no match at t[1]
EmphasisEnd(t) ==
  IF /\ Len(t) >= 4 /\ t[1] \in Whitespace /\ t[2] = "*" /\ t[3] # "*"
     /\ \E j \in 4..Len(t) : t[j] = "*"
  THEN CHOOSE j \in 4..Len(t) : t[j] = "*" /\ \A i \in 3..(j - 1) : t[i] # "*"
  ELSE 0

\* .replace(/\s\*([^*]+)\*/g, ' $1')
RECURSIVE RemoveEmphasis(_)
RemoveEmphasis(t) ==
  IF Len(t) = 0 THEN <<>>
  ELSE LET j == EmphasisEnd(t)
       IN IF j > 0
          THEN <<" ">> \o SubSeq(t, 3, j - 1) \o RemoveEmphasis(SubSeq(t, j + 1, Len(t)))
          ELSE <<t[1]>> \o RemoveEmphasis(Tail(t))

RECURSIVE TrimStart(_)
TrimStart(t) ==
  IF Len(t) > 0 /\ t[1] \in Whitespace THEN TrimStart(Tail(t)) ELSE t

RECURSIVE TrimEnd(_)
TrimEnd(t) ==
  IF Len(t) > 0 /\ t[Len(t)] \in Whitespace
  THEN TrimEnd(SubSeq(t, 1, Len(t) - 1))
  ELSE t

\* generatedText.replace(...).replace(...).trim()
cleanedText(generatedText) ==
  TrimEnd(TrimStart(RemoveEmphasis(RemoveDoubleAsterisks(generatedText))))

\* the values tried for the fields of the body
Questions == { "undefined", "", "What does it do?", "Which license?" }
QuestionRepoNames == { "undefined", "facebook/react" }

\* what request.json() gives: an object with any of the two fields, a JSON
\* primitive, null, or a body that is not JSON (an empty body included)
QuestionBodies ==
  { [json |-> "object", question |-> q, repoName |-> n]
      : q \in Questions, n \in QuestionRepoNames }
    \cup { [json |-> j, question |-> "undefined", repoName |-> "undefined"]
             : j \in { "primitive", "null", "invalid" } }

GeneratedTexts ==
  { <<"O", "K">>,
    <<"*", "*", "O", "K", "*", "*">>,
    <<"a", " ", "*", "b", "*", "\n">>,
    <<>> }

\* how axios.post settles, the text of a complete response included
QuestionOutcomes ==
  { [kind |-> "resolved", status |-> 200, shape |-> "text", text |-> t]
      : t \in GeneratedTexts }
    \cup { [kind |-> "resolved", status |-> 200, shape |-> sh, text |-> <<>>]
             : sh \in { "noText", "noParts", "noCandidates", "noData" } }
    \cup { [kind |-> "rejected", status |-> st, shape |-> "none", text |-> <<>>]
             : st \in { 400, 429, 503 } }
    \cup { [kind |-> "network", status |-> 0, shape |-> "none", text |-> <<>>] }

NoQuestionResponse ==
  [status |-> 0, error |-> "none", details |-> "none", message |-> <<>>]
QuestionError(status, error, details) ==
  [status |-> status, error |-> error, details |-> details, message |-> <<>>]

\* the body carries a truthy question
QuestionPresent(body) ==
  body.json = "object" /\ body.question # "undefined" /\ body.question # ""

QuestionInit ==
  /\ KeyIdle /\ FcIdle /\ CacheIdle /\ HookIdle /\ WeatherIdle /\ GithubIdle
  /\ RepoIdle /\ RouteIdle
  /\ geminiApiKey \in GeminiKeys
  /\ geminiBaseUrl \in GeminiBaseUrls
  /\ gPc = "off" /\ gBody = <<>> /\ gMode = 0 /\ gCalls = 0 /\ gResp = <<>>
  /\ qPc = "idle"
  /\ qBody = [json |-> "primitive", question |-> "undefined", repoName |-> "undefined"]
  /\ qCalls = 0
  /\ qResp = NoQuestionResponse

QuestionRespond(resp) ==
  /\ qPc' = "done"
  /\ qResp' = resp

\* POST up to the await of axios.post
QuestionPost(body) ==
  /\ qPc \in { "idle", "done" }
  /\ qBody' = body
  /\ IF body.json \in { "null", "invalid" }
     THEN /\ qCalls' = 0
          /\ QuestionRespond(QuestionError(500, "Failed to generate AI response",
                                           "error.message"))
     ELSE IF ~QuestionPresent(body)
     THEN /\ qCalls' = 0
          /\ QuestionRespond(QuestionError(400, "Missing question",
                                           "A question is required"))
     ELSE IF geminiApiKey = "undefined"
     THEN /\ qCalls' = 0
          /\ QuestionRespond(QuestionError(500, "Server configuration error",
                                           "AI API key not configured."))
     ELSE IF geminiBaseUrl = "undefined"
     THEN /\ qCalls' = 0
          /\ QuestionRespond(QuestionError(500, "Server configuration error",
                                           "AI API URL not configured."))
     ELSE /\ qCalls' = 1
          /\ qPc' = "awaitUpstream"
          /\ qResp' = NoQuestionResponse
  /\ UNCHANGED <<geminiApiKey, geminiBaseUrl, gPc, gBody, gMode, gCalls, gResp>>

\* axios.post settles: the shape check, the edited text, the catch block;
\* without a text, generatedText.replace throws a TypeError
QuestionSettled(outcome) ==
  /\ qPc = "awaitUpstream"
  /\ IF outcome.kind = "resolved"
     THEN IF outcome.shape = "text"
          THEN QuestionRespond([status |-> 200, error |-> "none", details |-> "none",
                                message |-> cleanedText(outcome.text)])
          ELSE IF outcome.shape = "noText"
          THEN QuestionRespond(QuestionError(500, "Failed to generate AI response",
                                             "error.message"))
          ELSE QuestionRespond(QuestionError(500, "Failed to generate AI response",
                 "Received an unexpected response format from the AI service."))
     ELSE IF outcome.kind = "rejected"
     THEN QuestionRespond(QuestionError(outcome.status,
                            "Failed to communicate with AI service", "error.message"))
     ELSE QuestionRespond(QuestionError(500, "Failed to communicate with AI service",
                                        "error.message"))
  /\ UNCHANGED <<geminiApiKey, geminiBaseUrl, gPc, gBody, gMode, gCalls, gResp>>
  /\ UNCHANGED <<qBody, qCalls>>

QuestionNext ==
  /\ \/ \E b \in QuestionBodies : QuestionPost(b)
     \/ \E o \in QuestionOutcomes : QuestionSettled(o)
  /\ UNCHANGED <<keyVars, fcVars, cacheVars, hookVars, weatherVars, githubVars,
               repoVars, routeVars>>

SpecQuestion == QuestionInit /\ [][QuestionNext]_vars

\* C27: a request without its required parameter is answered with status 400
\* and makes no upstream call (the question route has no server cache).
C27_MissingParameterIs400 ==
  (qPc = "done" /\ ~QuestionPresent(qBody)) =>
    /\ qResp.status = 400
    /\ qCalls = 0

\* the key is unset or the value of the .env.local example, or the URL is unset
GeminiNotConfigured ==
  \/ geminiApiKey \in { "undefined", "your_gemini_api_key" }
  \/ geminiBaseUrl = "undefined"

\* C28: while the Gemini key or base URL is missing or the placeholder, a
\* request that carries its question is answered with status 500 and the
\* configuration error, and makes no upstream call.
C28_NotConfiguredIs500 ==
  (qPc # "idle" /\ QuestionPresent(qBody) /\ GeminiNotConfigured) =>
    /\ qPc = "done"
    /\ qResp.status = 500
    /\ qResp.error = "Server configuration error"
    /\ qCalls = 0

\* C29: when the upstream response is successful and lacks a part of the path
\* candidates[0].content.parts[0].text, the text included, POST /api/gemini
\* answers with status 500 and not with 200.
C29_AbsentTextIs500 ==
  [][ \A o \in GeminiOutcomes :
        (GeminiSettled(o) /\ o.kind = "resolved" /\ o.shape # "text") =>
          gResp'.status = 500
    ]_vars

\* ===========================================================================
\* GitHub routes: the normalized project
\* ===========================================================================
\* A repository as the GitHub API returns it: description, homepage and
\* language are a string or null, license is an object or null, topics is an
\* array (a set here; `topics || []` leaves an array as it is).
NullLicense == [tag |-> "null", name |-> "", url |-> ""]
UndefinedLicense == [tag |-> "undefined", name |-> "", url |-> ""]
UpstreamLicenses ==
  { NullLicense, [tag |-> "object", name |-> "MIT License", url |-> "https://api.github.com/licenses/mit"] }

UpstreamRepos ==
  { [full_name |-> "facebook/react", description |-> d, homepage |-> h,
     language |-> l, topics |-> { "react" }, license |-> lic]
      : d \in { "null", "The library for web and native user interfaces" },
        h \in { "null", "", "https://react.dev" },
        l \in { "null", "JavaScript" },
        lic \in UpstreamLicenses }

\* x || ''
OrEmpty(x) == IF x = "null" \/ x = "undefined" \/ x = "" THEN "" ELSE x

\* license ? { name: license.name, url: license.url } : undefined
LicenseOrUndefined(license) ==
  IF license.tag = "object"
  THEN [tag |-> "object", name |-> license.name, url |-> license.url]
  ELSE UndefinedLicense

\* the repoData literal of getRepoDetails
getRepoDetails(data) ==
  [full_name |-> data.full_name,
   description |-> OrEmpty(data.description),
   language |-> OrEmpty(data.language),
   topics |-> data.topics,
   homepage |-> data.homepage,
   license |-> LicenseOrUndefined(data.license)]

\* the object literal of the map in fetchTrendingRepos
TrendingProject(item) ==
  [full_name |-> item.full_name,
   description |-> OrEmpty(item.description),
   language |-> OrEmpty(item.language),
   topics |-> item.topics,
   homepage |-> item.homepage,
   license |-> LicenseOrUndefined(item.license)]

fetchTrendingRepos(items) == [i \in 1..Len(items) |-> TrendingProject(items[i])]

\* the object literal of the map in searchRepositories
SearchProject(item) ==
  [full_name |-> item.full_name,
   description |-> OrEmpty(item.description),
   language |-> OrEmpty(item.language),
   topics |-> item.topics,
   homepage |-> OrEmpty(item.homepage),
   license |-> LicenseOrUndefined(item.license)]

searchRepositories(items) == [i \in 1..Len(items) |-> SearchProject(items[i])]

\* ---------------------------------------------------------------------------
\* normalization harness: one upstream response, normalized by one handler
\* ---------------------------------------------------------------------------
UpstreamLists ==
  UNION { [1..n -> UpstreamRepos] : n \in 0..MaxItems }

GithubInit ==
  /\ KeyIdle /\ FcIdle /\ CacheIdle /\ HookIdle /\ WeatherIdle /\ GeminiIdle
  /\ RepoIdle /\ RouteIdle
  /\ ghPc = "input"
  /\ ghHandler = "none"
  /\ ghUpstream \in UpstreamLists
  /\ ghProjects = <<>>

\* GET /api/github?repo=R: the upstream response is one repository
RepoDetails ==
  /\ ghPc = "input"
  /\ Len(ghUpstream) = 1
  /\ ghPc' = "done"
  /\ ghHandler' = "repo"
  /\ ghProjects' = << getRepoDetails(ghUpstream[1]) >>
  /\ UNCHANGED ghUpstream

\* GET /api/github?filter=trending: the upstream response is a list of items
TrendingRepos ==
  /\ ghPc = "input"
  /\ ghPc' = "done"
  /\ ghHandler' = "trending"
  /\ ghProjects' = fetchTrendingRepos(ghUpstream)
  /\ UNCHANGED ghUpstream

\* GET /api/github/search?q=Q: the upstream response is a list of items
SearchRepos ==
  /\ ghPc = "input"
  /\ ghPc' = "done"
  /\ ghHandler' = "search"
  /\ ghProjects' = searchRepositories(ghUpstream)
  /\ UNCHANGED ghUpstream

GithubNext ==
  /\ \/ RepoDetails
     \/ TrendingRepos
     \/ SearchRepos
  /\ UNCHANGED <<keyVars, fcVars, cacheVars, hookVars, weatherVars, geminiVars,
               repoVars, routeVars>>

SpecGithub == GithubInit /\ [][GithubNext]_vars

\* C8: no field of a normalized project is null: a null description becomes
\* '', a null homepage becomes '' or undefined, a null license becomes
\* undefined, whichever handler normalized the repository.
C8_NoNullFields ==
  ghPc = "done" =>
    \A i \in 1..Len(ghProjects) :
      LET up == ghUpstream[i]
          p == ghProjects[i]
      IN /\ p.full_name # "null" /\ p.description # "null" /\ p.language # "null"
         /\ p.homepage # "null" /\ p.license.tag # "null"
         /\ up.description = "null" => p.description = ""
         /\ up.homepage = "null" => p.homepage \in { "", "undefined" }
         /\ up.license.tag = "null" => p.license.tag = "undefined"

\* ===========================================================================
\* GitHub projects route: GET /api/github
\* ===========================================================================
\* One request at a time. The handler runs from one awaited upstream call to
\* the next in one step; a getRepoDetails call that finds a fresh cache entry
\* makes no upstream call and is part of the step that made it.

\* CACHE_DURATION of the route, in milliseconds
GithubCacheDuration == 30 * 60 * 1000

\* two of the curated repositories
curatedRepos == << "facebook/react", "tailwindlabs/tailwindcss" >>

\* what the GitHub API answers for /repos/<name>
MitLicense ==
  [tag |-> "object", name |-> "MIT License", url |-> "https://api.github.com/licenses/mit"]
UpstreamRepo(name) ==
  CASE name = "facebook/react" ->
         [full_name |-> name, description |-> "The library for web and native user interfaces",
          homepage |-> "https://react.dev", language |-> "JavaScript",
          topics |-> { "ui", "react" }, license |-> MitLicense]
    [] OTHER ->
         [full_name |-> name, description |-> "A utility-first CSS framework",
          homepage |-> "https://tailwindcss.com", language |-> "CSS",
          topics |-> { "ui" }, license |-> MitLicense]

\* what the search API answers for the trending query: no item or two
TrendingItem(name) == [UpstreamRepo("facebook/react") EXCEPT !.full_name = name]
TrendingLists ==
  { <<>>, << TrendingItem("trend/one"), TrendingItem("trend/two") >> }

\* the issues the API answers for /repos/<name>/issues, already in the shape
\* the handler maps them to
IssueLists == { <<>>, << [number |-> 1, title |-> "good first issue"] >> }

NoProject ==
  [full_name |-> "none", description |-> "", language |-> "", topics |-> {},
   homepage |-> "", license |-> UndefinedLicense]

\* `repo_${repoFullName}` and `trending_${language || 'all'}_${since}_${topic || 'all'}`
RepoCacheKey(repoFullName) == "repo_" \o repoFullName
TrendingCacheKey(language, since, topic) ==
  "trending_" \o (IF language = "undefined" THEN "all" ELSE language) \o "_" \o since
    \o "_" \o (IF topic = "undefined" THEN "all" ELSE topic)

\* cache[cacheKey] && (now - cache[cacheKey].timestamp) < CACHE_DURATION
GithubCacheFresh(cache, cacheKey, now) ==
  /\ cacheKey \in DOMAIN cache
  /\ (now - cache[cacheKey].timestamp) < GithubCacheDuration

\* the query strings tried, as the handler parses them: `repo` with and
\* without the other parameters, trending with and without a language, each
\* filter alone and both, `count` below and at the length of the list
Query(repo, filter, language, topic, count) ==
  [repo |-> repo, filter |-> filter, language |-> language, topic |-> topic, count |-> count]
RepoQueries ==
  { Query("undefined", "all", "undefined", "undefined", 1),
    Query("undefined", "all", "undefined", "undefined", 2),
    Query("facebook/react", "all", "undefined", "undefined", 1),
    Query("facebook/react", "trending", "JavaScript", "ui", 2),
    Query("undefined", "trending", "undefined", "undefined", 1),
    Query("undefined", "trending", "JavaScript", "undefined", 2),
    Query("undefined", "all", "JavaScript", "undefined", 2),
    Query("undefined", "all", "undefined", "ui", 1),
    Query("undefined", "all", "undefined", "ui", 2),
    Query("undefined", "all", "JavaScript", "ui", 1) }

\* shuffleArray([...repoList]): any order of the list
ShuffledRepos ==
  { p \in [1..Len(curatedRepos) -> Range(curatedRepos)] :
      \A i, j \in 1..Len(curatedRepos) : i # j => p[i] # p[j] }

NoRepoResponse == [status |-> 0, kind |-> "none", project |-> NoProject,
                   list |-> <<>>, issues |-> <<>>]

IdleRepoRequest ==
  [pc |-> "idle", repo |-> "undefined", filter |-> "all", language |-> "undefined",
   topic |-> "undefined", count |-> 1, now |-> 0, callNow |-> 0, branch |-> "none",
   repoData |-> NoProject, order |-> <<>>, probed |-> <<>>, found |-> <<>>,
   selected |-> <<>>, pending |-> {}, results |-> <<>>, failed |-> {},
   calls |-> 0, hits |-> {}, anyFailed |-> FALSE, wrote |-> {}, resp |-> NoRepoResponse]

\* return NextResponse.json(body, {status}): the locals of the loops end here
RepoRespond(req, status, kind, project, list, issues) ==
  [req EXCEPT !.pc = "done", !.callNow = 0, !.repoData = NoProject, !.order = <<>>,
              !.found = <<>>, !.pending = {}, !.results = <<>>,
              !.resp = [status |-> status, kind |-> kind, project |-> project,
                        list |-> list, issues |-> issues]]

\* the test of the filter loop that is taken for the given filters
Matches(req, repoData) ==
  /\ req.language # "undefined" => repoData.language = req.language
  /\ req.topic # "undefined" => req.topic \in repoData.topics

\* the filter loop from its current position up to the next upstream call or
\* its end: break on `count` matches, cached details are tested at once
\* a loop without the break
ProbeLoopEndsExhausted(req) == req.order = <<>>

\* if (found.length >= count) break, or the for loop is at its end
ProbeLoopEnds(req) == Len(req.found) >= req.count \/ req.order = <<>>

RECURSIVE ProbeRun(_, _, _)
ProbeRun(req, cache, now) ==
  IF ProbeLoopEnds(req)
  THEN [req EXCEPT !.pc = "probeEnd"]
  ELSE LET name == Head(req.order)
           cacheKey == RepoCacheKey(name)
       IN IF GithubCacheFresh(cache, cacheKey, now)
          THEN ProbeRun([req EXCEPT !.order = Tail(@),
                                    !.probed = Append(@, name),
                                    !.hits = @ \cup { cacheKey },
                                    !.found = IF Matches(req, cache[cacheKey].data)
                                              THEN Append(@, cache[cacheKey].data)
                                              ELSE @],
                        cache, now)
          ELSE [req EXCEPT !.pc = "awaitProbe", !.probed = Append(@, name),
                           !.callNow = now, !.calls = @ + 1]

\* the default branch up to Promise.all: the first `count` of a shuffle, one
\* getRepoDetails call each, all made in the same synchronous block
DefaultRun(req, cache, now, shuffled) ==
  LET selectedRepos == SliceFront(shuffled, req.count)
      hits == { name \in Range(selectedRepos) : GithubCacheFresh(cache, RepoCacheKey(name), now) }
      misses == Range(selectedRepos) \ hits
  IN [req EXCEPT !.branch = "default", !.selected = selectedRepos,
                 !.pending = misses, !.failed = {},
                 !.hits = @ \cup { RepoCacheKey(name) : name \in hits },
                 !.results = [name \in hits |-> cache[RepoCacheKey(name)].data],
                 !.callNow = now, !.calls = @ + Cardinality(misses),
                 !.pc = IF misses = {} THEN "defaultEnd" ELSE "awaitDefault"]

\* results.filter(result => result !== null), in the order of selectedRepos
RECURSIVE ValidResults(_, _)
ValidResults(selectedRepos, results) ==
  IF selectedRepos = <<>> THEN <<>>
  ELSE IF Head(selectedRepos) \in DOMAIN results
       THEN << results[Head(selectedRepos)] >> \o ValidResults(Tail(selectedRepos), results)
       ELSE ValidResults(Tail(selectedRepos), results)

\* a batch that fails as soon as one of its fetches failed
AfterDefaultAllOrNothing(req) ==
  IF req.pc # "defaultEnd" THEN req
  ELSE LET validResults == ValidResults(req.selected, req.results)
       IN IF Len(validResults) < Len(req.selected)
          THEN RepoRespond(req, 500, "error", NoProject, <<>>, <<>>)
          ELSE RepoRespond(req, 200, "list", NoProject, validResults, <<>>)

\* after Promise.all: 500 when nothing is left, the list otherwise
AfterDefault(req) ==
  IF req.pc # "defaultEnd" THEN req
  ELSE LET validResults == ValidResults(req.selected, req.results)
       IN IF Len(validResults) = 0
          THEN RepoRespond(req, 500, "error", NoProject, <<>>, <<>>)
          ELSE RepoRespond(req, 200, "list", NoProject, validResults, <<>>)

\* after the filter loop: the matches when there are any, the default branch
\* otherwise
AfterProbe(req, cache, now, shuffled) ==
  IF req.pc # "probeEnd" THEN req
  ELSE IF Len(req.found) > 0
       THEN RepoRespond(req, 200, "list", NoProject, req.found, <<>>)
       ELSE AfterDefault(DefaultRun(req, cache, now, shuffled))

\* from `const repoList = [...curatedRepos]` on
CuratedRun(req, cache, now, shuffledA, shuffledB) ==
  IF req.language # "undefined" \/ req.topic # "undefined"
  THEN AfterProbe(ProbeRun([req EXCEPT !.branch = "filter", !.order = shuffledA],
                           cache, now),
                  cache, now, shuffledB)
  ELSE AfterDefault(DefaultRun(req, cache, now, shuffledB))

\* how an upstream call of getRepoDetails or fetchTrendingRepos can end:
\* status 200, another status, or a rejected promise
FetchOutcomes == { "ok", "status", "throws" }

\* how the issues call can end: 200 with a list, 200 with a body that is not
\* an array, another status (403), or a rejected promise
IssuesOutcomes ==
  { [kind |-> "ok", issues |-> l] : l \in IssueLists }
    \cup { [kind |-> k, issues |-> <<>>] : k \in { "malformed", "status", "throws" } }

\* an issues helper that reports a failure as an item of the list
getBeginnerFriendlyIssuesReporting(outcome) ==
  IF outcome.kind = "ok" THEN outcome.issues
  ELSE << [number |-> 0, title |-> outcome.kind] >>

\* getBeginnerFriendlyIssues after its axios.get
getBeginnerFriendlyIssues(outcome) ==
  IF outcome.kind = "ok" THEN outcome.issues ELSE <<>>

NoCall == [call |-> "none", ok |-> FALSE, cacheKey |-> "", empty |-> FALSE]

\* the route modules of the server; a run requests one of them, which share
\* nothing but the clock
ServerRoutes == { "github", "search", "issues", "weather" }

NoRouteResponse == [status |-> 0, kind |-> "none", data |-> <<>>]
IdleRouteRequest ==
  [pc |-> "idle", arg |-> "null", cacheKey |-> "", callNow |-> 0, calls |-> 0,
   hit |-> FALSE, stale |-> FALSE, resp |-> NoRouteResponse]

ServerInit ==
  /\ KeyIdle /\ FcIdle /\ CacheIdle /\ HookIdle /\ WeatherIdle /\ GeminiIdle /\ GithubIdle
  /\ srRoute \in ServerRoutes
  /\ rpNow = 0 /\ rpTicks = 0 /\ rpStarted = 0
  /\ repoCache = <<>> /\ trendingCache = <<>>
  /\ rpReq = IdleRepoRequest
  /\ rpEvent = NoCall
  /\ searchCache = <<>> /\ issueCache = <<>> /\ simpleWeatherCache = <<>>
  /\ srApiKey \in IF srRoute = "weather" THEN { "undefined", "owm-key" } ELSE { "undefined" }
  /\ srReq = IdleRouteRequest

\* the single-repository branch once repoData is there: the issues call
RepoBranchIssues(req, repoData) ==
  [req EXCEPT !.repoData = repoData, !.pc = "awaitIssues", !.calls = @ + 1]

\* a single-repository branch that is tested after the trending branch
RepoGetTrendingFirst(repoFullName, filter) ==
  repoFullName # "undefined" /\ filter # "trending"

\* if (repoFullName): the test that comes first
RepoGetTakesRepoBranch(repoFullName, filter) ==
  repoFullName # "undefined"

\* GET up to its first upstream call or its response
RepoGet(repoFullName, filter, language, topic, count, shuffledA, shuffledB) ==
  /\ srRoute = "github"
  /\ rpReq.pc \in { "idle", "done" }
  /\ rpStarted < MaxRepoReqs
  /\ LET req == [IdleRepoRequest EXCEPT !.repo = repoFullName, !.filter = filter,
                                        !.language = language, !.topic = topic,
                                        !.count = count, !.now = rpNow]
         repoKey == RepoCacheKey(repoFullName)
         trendingKey == TrendingCacheKey(language, "daily", topic)
     IN rpReq' =
          IF RepoGetTakesRepoBranch(repoFullName, filter)
          THEN IF GithubCacheFresh(repoCache, repoKey, rpNow)
               THEN RepoBranchIssues([req EXCEPT !.branch = "repo", !.hits = { repoKey }],
                                     repoCache[repoKey].data)
               ELSE [req EXCEPT !.branch = "repo", !.pc = "awaitDetails",
                                !.callNow = rpNow, !.calls = @ + 1]
          ELSE IF filter = "trending"
          THEN IF GithubCacheFresh(trendingCache, trendingKey, rpNow)
               THEN RepoRespond([req EXCEPT !.branch = "trending", !.hits = { trendingKey }],
                                200, "list", NoProject,
                                SliceFront(trendingCache[trendingKey].data, count), <<>>)
               ELSE [req EXCEPT !.branch = "trending", !.pc = "awaitTrending",
                                !.callNow = rpNow, !.calls = @ + 1]
          ELSE CuratedRun(req, repoCache, rpNow, shuffledA, shuffledB)
  /\ rpStarted' = rpStarted + 1
  /\ rpEvent' = NoCall
  /\ UNCHANGED <<rpNow, rpTicks, repoCache, trendingCache, routeVars>>

\* getRepoDetails of the single-repository branch settles
RepoDetailsSettled(outcome) ==
  /\ srRoute = "github"
  /\ rpReq.pc = "awaitDetails"
  /\ LET cacheKey == RepoCacheKey(rpReq.repo)
         repoData == getRepoDetails(UpstreamRepo(rpReq.repo))
     IN IF outcome = "ok"
        THEN /\ repoCache' = Put(repoCache, cacheKey,
                                 [data |-> repoData, timestamp |-> rpReq.callNow])
             /\ rpReq' = RepoBranchIssues([rpReq EXCEPT !.wrote = @ \cup { cacheKey }], repoData)
             /\ rpEvent' = [call |-> "details", ok |-> TRUE, cacheKey |-> cacheKey, empty |-> FALSE]
        ELSE /\ repoCache' = repoCache
             /\ rpReq' = RepoRespond([rpReq EXCEPT !.anyFailed = TRUE,
                                                   !.failed = { rpReq.repo }], 404, "error",
                                     NoProject, <<>>, <<>>)
             /\ rpEvent' = [call |-> "details", ok |-> FALSE, cacheKey |-> cacheKey, empty |-> FALSE]
  /\ UNCHANGED <<rpNow, rpTicks, rpStarted, trendingCache, routeVars>>

\* getBeginnerFriendlyIssues settles: { ...repoData, beginner_issues: issues }
RepoIssuesSettled(outcome) ==
  /\ srRoute = "github"
  /\ rpReq.pc = "awaitIssues"
  /\ LET issues == getBeginnerFriendlyIssues(outcome)
         req == [rpReq EXCEPT !.anyFailed = @ \/ outcome.kind # "ok"]
     IN rpReq' = RepoRespond(req, 200, "project", rpReq.repoData, <<>>, issues)
  /\ rpEvent' = [call |-> "issues", ok |-> outcome.kind = "ok", cacheKey |-> "", empty |-> FALSE]
  /\ UNCHANGED <<rpNow, rpTicks, rpStarted, repoCache, trendingCache, routeVars>>

\* fetchTrendingRepos settles: a non-empty list is cached and returned,
\* anything else falls through to the curated list
RepoTrendingSettled(outcome, items, shuffledA, shuffledB) ==
  /\ srRoute = "github"
  /\ rpReq.pc = "awaitTrending"
  /\ outcome # "ok" => items = <<>>
  /\ LET cacheKey == TrendingCacheKey(rpReq.language, "daily", rpReq.topic)
         trendingRepos == fetchTrendingRepos(items)
     IN IF outcome = "ok" /\ Len(trendingRepos) > 0
        THEN /\ trendingCache' = Put(trendingCache, cacheKey,
                                     [data |-> trendingRepos, timestamp |-> rpReq.now])
             /\ rpReq' = RepoRespond([rpReq EXCEPT !.wrote = @ \cup { cacheKey }], 200, "list",
                                     NoProject, SliceFront(trendingRepos, rpReq.count), <<>>)
             /\ rpEvent' = [call |-> "trending", ok |-> TRUE, cacheKey |-> cacheKey, empty |-> FALSE]
        ELSE /\ trendingCache' = trendingCache
             /\ rpReq' = CuratedRun([rpReq EXCEPT !.anyFailed = @ \/ outcome # "ok"],
                                    repoCache, rpNow, shuffledA, shuffledB)
             /\ rpEvent' = [call |-> "trending", ok |-> outcome = "ok", cacheKey |-> cacheKey,
                             empty |-> outcome = "ok"]
  /\ UNCHANGED <<rpNow, rpTicks, rpStarted, repoCache, routeVars>>

\* getRepoDetails of the filter loop settles; the loop goes on
RepoProbeSettled(outcome, shuffled) ==
  /\ srRoute = "github"
  /\ rpReq.pc = "awaitProbe"
  /\ LET name == Head(rpReq.order)
         cacheKey == RepoCacheKey(name)
         repoData == getRepoDetails(UpstreamRepo(name))
         cache == IF outcome = "ok"
                  THEN Put(repoCache, cacheKey, [data |-> repoData, timestamp |-> rpReq.callNow])
                  ELSE repoCache
         req == [rpReq EXCEPT !.order = Tail(@),
                              !.found = IF outcome = "ok" /\ Matches(rpReq, repoData)
                                        THEN Append(@, repoData) ELSE @,
                              !.anyFailed = @ \/ outcome # "ok",
                              !.wrote = IF outcome = "ok" THEN @ \cup { cacheKey } ELSE @]
     IN /\ repoCache' = cache
        /\ rpReq' = AfterProbe(ProbeRun(req, cache, rpNow), cache, rpNow, shuffled)
        /\ rpEvent' = [call |-> "probe", ok |-> outcome = "ok", cacheKey |-> cacheKey, empty |-> FALSE]
  /\ UNCHANGED <<rpNow, rpTicks, rpStarted, trendingCache, routeVars>>

\* one of the concurrent getRepoDetails calls of the default branch settles;
\* Promise.all resolves with the last of them
RepoDefaultSettled(name, outcome) ==
  /\ srRoute = "github"
  /\ rpReq.pc = "awaitDefault"
  /\ name \in rpReq.pending
  /\ LET cacheKey == RepoCacheKey(name)
         repoData == getRepoDetails(UpstreamRepo(name))
         pending == rpReq.pending \ { name }
         req == [rpReq EXCEPT !.pending = pending,
                              !.results = IF outcome = "ok" THEN Put(@, name, repoData) ELSE @,
                              !.failed = IF outcome = "ok" THEN @ ELSE @ \cup { name },
                              !.anyFailed = @ \/ outcome # "ok",
                              !.wrote = IF outcome = "ok" THEN @ \cup { cacheKey } ELSE @,
                              !.pc = IF pending = {} THEN "defaultEnd" ELSE @]
     IN /\ repoCache' = IF outcome = "ok"
                        THEN Put(repoCache, cacheKey,
                                 [data |-> repoData, timestamp |-> rpReq.callNow])
                        ELSE repoCache
        /\ rpReq' = AfterDefault(req)
        /\ rpEvent' = [call |-> "default", ok |-> outcome = "ok", cacheKey |-> cacheKey, empty |-> FALSE]
  /\ UNCHANGED <<rpNow, rpTicks, rpStarted, trendingCache, routeVars>>

\* ===========================================================================
\* GET /api/github/search, GET /api/github/issues, GET /api/weather
\* ===========================================================================
SearchCacheDuration == 5 * 60 * 1000
IssueCacheDuration == 5 * 60 * 1000
SimpleWeatherCacheDuration == 10 * 60 * 1000

\* a cache test that still serves an entry of age CACHE_DURATION
RouteCacheFreshInclusive(cache, cacheKey, now, duration) ==
  /\ cacheKey \in DOMAIN cache
  /\ (now - cache[cacheKey].timestamp) <= duration

\* cache[cacheKey] && (now - cache[cacheKey].timestamp) < CACHE_DURATION
RouteCacheFresh(cache, cacheKey, now, duration) ==
  /\ cacheKey \in DOMAIN cache
  /\ (now - cache[cacheKey].timestamp) < duration

\* NextResponse.json(body, {status})
RouteRespond(req, status, kind, data) ==
  [req EXCEPT !.pc = "done", !.resp = [status |-> status, kind |-> kind, data |-> data]]

RouteFree(route) ==
  /\ srRoute = route
  /\ srReq.pc \in { "idle", "done" }
  /\ rpStarted < MaxRepoReqs

\* the q, repo and city parameters: missing or given
SearchQueries == { "null", "react" }
IssueRepos == { "null", "facebook/react" }
WeatherCities == { "null", "London" }

\* the upstream search answers: 200 with items, 200 without an items array,
\* another status, a rejected promise
SearchOutcomes ==
  { [kind |-> "ok", items |-> l] : l \in { <<>>, << UpstreamRepo("facebook/react") >> } }
    \cup { [kind |-> k, items |-> <<>>] : k \in { "malformed", "status", "throws" } }

\* OpenWeatherMap answers: a status below 500 resolves, anything else rejects
SimpleWeatherOutcomes ==
  { [kind |-> "status", status |-> st] : st \in { 200, 400, 401, 404, 429 } }
    \cup { [kind |-> "rejected", status |-> 502], [kind |-> "network", status |-> 0] }

\* GET /api/github/search up to the upstream call
SearchGet(query) ==
  /\ RouteFree("search")
  /\ LET cacheKey == "search_" \o query
         req == [IdleRouteRequest EXCEPT !.arg = query, !.cacheKey = cacheKey]
     IN srReq' =
          IF query = "null" \/ query = ""
          THEN RouteRespond(req, 400, "error", <<>>)
          ELSE IF RouteCacheFresh(searchCache, cacheKey, rpNow, SearchCacheDuration)
          THEN RouteRespond([req EXCEPT !.hit = TRUE], 200, "repositories",
                            searchCache[cacheKey].data)
          ELSE [req EXCEPT !.pc = "await", !.callNow = rpNow, !.calls = 1,
                           !.stale = cacheKey \in DOMAIN searchCache]
  /\ rpStarted' = rpStarted + 1
  /\ rpEvent' = NoCall
  /\ UNCHANGED <<rpNow, rpTicks, repoCache, trendingCache, rpReq>>
  /\ UNCHANGED <<srRoute, searchCache, issueCache, simpleWeatherCache, srApiKey>>

\* searchRepositories after its axios.get
SearchSettled(outcome) ==
  /\ srRoute = "search"
  /\ srReq.pc = "await"
  /\ IF outcome.kind = "ok"
     THEN LET repositories == searchRepositories(outcome.items)
          IN /\ searchCache' = Put(searchCache, srReq.cacheKey,
                                   [data |-> repositories, timestamp |-> srReq.callNow])
             /\ srReq' = RouteRespond(srReq, 200, "repositories", repositories)
     ELSE /\ searchCache' = searchCache
          /\ srReq' = RouteRespond(srReq, 200, "repositories", <<>>)
  /\ rpEvent' = [call |-> "search", ok |-> outcome.kind = "ok", cacheKey |-> srReq.cacheKey, empty |-> FALSE]
  /\ UNCHANGED <<rpNow, rpTicks, rpStarted, repoCache, trendingCache, rpReq>>
  /\ UNCHANGED <<srRoute, issueCache, simpleWeatherCache, srApiKey>>

\* GET /api/github/issues up to the upstream call
IssuesGet(repoFullName) ==
  /\ RouteFree("issues")
  /\ LET cacheKey == "issues_" \o repoFullName
         req == [IdleRouteRequest EXCEPT !.arg = repoFullName, !.cacheKey = cacheKey]
     IN srReq' =
          IF repoFullName = "null" \/ repoFullName = ""
          THEN RouteRespond(req, 400, "error", <<>>)
          ELSE IF RouteCacheFresh(issueCache, cacheKey, rpNow, IssueCacheDuration)
          THEN RouteRespond([req EXCEPT !.hit = TRUE], 200, "issues", issueCache[cacheKey].data)
          ELSE [req EXCEPT !.pc = "await", !.callNow = rpNow, !.calls = 1,
                           !.stale = cacheKey \in DOMAIN issueCache]
  /\ rpStarted' = rpStarted + 1
  /\ rpEvent' = NoCall
  /\ UNCHANGED <<rpNow, rpTicks, repoCache, trendingCache, rpReq>>
  /\ UNCHANGED <<srRoute, searchCache, issueCache, simpleWeatherCache, srApiKey>>

\* getRepositoryIssues after its axios.get: the mapped list, or []
getRepositoryIssues(outcome) ==
  IF outcome.kind = "ok" THEN outcome.issues ELSE <<>>

\* an issues helper that caches the empty list of a failure
getRepositoryIssuesCachesFailure(outcome) == TRUE

\* getRepositoryIssues: whether the answer reaches the lines that cache it
getRepositoryIssuesCaches(outcome) == outcome.kind = "ok"

\* getRepositoryIssues after its axios.get
IssuesSettled(outcome) ==
  /\ srRoute = "issues"
  /\ srReq.pc = "await"
  /\ LET issues == getRepositoryIssues(outcome)
     IN /\ issueCache' = IF getRepositoryIssuesCaches(outcome)
                         THEN Put(issueCache, srReq.cacheKey,
                                  [data |-> issues, timestamp |-> srReq.callNow])
                         ELSE issueCache
        /\ srReq' = RouteRespond(srReq, 200, "issues", issues)
  /\ rpEvent' = [call |-> "issues", ok |-> outcome.kind = "ok", cacheKey |-> srReq.cacheKey, empty |-> FALSE]
  /\ UNCHANGED <<rpNow, rpTicks, rpStarted, repoCache, trendingCache, rpReq>>
  /\ UNCHANGED <<srRoute, searchCache, simpleWeatherCache, srApiKey>>

\* the body OpenWeatherMap answers with status 200
SimpleWeatherData(cacheKey) == << "weather of " \o cacheKey >>

\* GET /api/weather up to the upstream call; units is left at its default
SimpleWeatherGet(city) ==
  /\ RouteFree("weather")
  /\ LET cacheKey == city \o "-" \o "metric"
         req == [IdleRouteRequest EXCEPT !.arg = city, !.cacheKey = cacheKey]
     IN srReq' =
          IF city = "null" \/ city = ""
          THEN RouteRespond(req, 400, "error", <<>>)
          ELSE IF RouteCacheFresh(simpleWeatherCache, cacheKey, rpNow, SimpleWeatherCacheDuration)
          THEN RouteRespond([req EXCEPT !.hit = TRUE], 200, "weather",
                            simpleWeatherCache[cacheKey].data)
          ELSE IF srApiKey = "undefined" \/ srApiKey = "your_openweathermap_api_key"
          THEN RouteRespond(req, 500, "error", <<>>)
          ELSE [req EXCEPT !.pc = "await", !.callNow = rpNow, !.calls = 1,
                           !.stale = cacheKey \in DOMAIN simpleWeatherCache]
  /\ rpStarted' = rpStarted + 1
  /\ rpEvent' = NoCall
  /\ UNCHANGED <<rpNow, rpTicks, repoCache, trendingCache, rpReq>>
  /\ UNCHANGED <<srRoute, searchCache, issueCache, simpleWeatherCache, srApiKey>>

\* the answer of OpenWeatherMap: 200 is cached and returned, another resolved
\* status is passed on, a rejection is wrapped in a new Error and ends as 500
SimpleWeatherSettled(outcome) ==
  /\ srRoute = "weather"
  /\ srReq.pc = "await"
  /\ IF outcome.kind = "status" /\ outcome.status = 200
     THEN LET data == SimpleWeatherData(srReq.cacheKey)
          IN /\ simpleWeatherCache' = Put(simpleWeatherCache, srReq.cacheKey,
                                          [data |-> data, timestamp |-> srReq.callNow])
             /\ srReq' = RouteRespond(srReq, 200, "weather", data)
     ELSE /\ simpleWeatherCache' = simpleWeatherCache
          /\ srReq' = RouteRespond(srReq,
                                   IF outcome.kind = "status" THEN outcome.status ELSE 500,
                                   "error", <<>>)
  /\ rpEvent' = [call |-> "weather", ok |-> outcome.kind = "status" /\ outcome.status = 200,
                 cacheKey |-> srReq.cacheKey, empty |-> FALSE]
  /\ UNCHANGED <<rpNow, rpTicks, rpStarted, repoCache, trendingCache, rpReq>>
  /\ UNCHANGED <<srRoute, searchCache, issueCache, srApiKey>>

\* CACHE_DURATION of the route module requested
RouteCacheDuration ==
  CASE srRoute = "github" -> GithubCacheDuration
    [] srRoute = "search" -> SearchCacheDuration
    [] srRoute = "issues" -> IssueCacheDuration
    [] OTHER -> SimpleWeatherCacheDuration

\* the server clock advances: to the last millisecond an entry written now
\* is served, or to the first it is not
RouteTickSteps == { RouteCacheDuration - 1, RouteCacheDuration }
RouteTick(d) ==
  /\ srRoute \in ServerRoutes
  /\ rpTicks < MaxRepoTicks
  /\ rpNow' = rpNow + d
  /\ rpTicks' = rpTicks + 1
  /\ rpEvent' = NoCall
  /\ UNCHANGED <<rpStarted, repoCache, trendingCache, rpReq, routeVars>>

ServerNext ==
  /\ \/ \E q \in RepoQueries, shuffledA \in ShuffledRepos, shuffledB \in ShuffledRepos :
          RepoGet(q.repo, q.filter, q.language, q.topic, q.count, shuffledA, shuffledB)
     \/ \E outcome \in FetchOutcomes : RepoDetailsSettled(outcome)
     \/ \E outcome \in IssuesOutcomes : RepoIssuesSettled(outcome)
     \/ \E outcome \in FetchOutcomes, items \in TrendingLists,
          shuffledA \in ShuffledRepos, shuffledB \in ShuffledRepos :
            RepoTrendingSettled(outcome, items, shuffledA, shuffledB)
     \/ \E outcome \in FetchOutcomes, shuffled \in ShuffledRepos :
          RepoProbeSettled(outcome, shuffled)
     \/ \E name \in Range(curatedRepos), outcome \in FetchOutcomes :
          RepoDefaultSettled(name, outcome)
     \/ \E query \in SearchQueries : SearchGet(query)
     \/ \E outcome \in SearchOutcomes : SearchSettled(outcome)
     \/ \E repoFullName \in IssueRepos : IssuesGet(repoFullName)
     \/ \E outcome \in IssuesOutcomes : IssuesSettled(outcome)
     \/ \E city \in WeatherCities : SimpleWeatherGet(city)
     \/ \E outcome \in SimpleWeatherOutcomes : SimpleWeatherSettled(outcome)
     \/ \E d \in RouteTickSteps : RouteTick(d)
  /\ UNCHANGED <<keyVars, fcVars, cacheVars, hookVars, weatherVars, geminiVars, githubVars>>

SpecServer == ServerInit /\ [][ServerNext]_vars

\* ---------------------------------------------------------------------------
\* Properties of GET /api/github
\* ---------------------------------------------------------------------------
RepoDone == srRoute = "github" /\ rpReq.pc = "done"

Min(a, b) == IF a < b THEN a ELSE b

\* list holds exactly the normalized repositories of names, once each
ListsExactly(list, names) ==
  /\ Len(list) = Cardinality(names)
  /\ { list[i].full_name : i \in 1..Len(list) } = names
  /\ \A i \in 1..Len(list) : list[i] = getRepoDetails(UpstreamRepo(list[i].full_name))

\* C11: a request that ends in the default branch selected min(count, length)
\* distinct curated repositories; whichever of their fetches failed and in
\* whatever order they settled, the response is 200 with exactly the
\* repositories whose fetch did not fail when there is one, and the response is
\* the 500 aggregate error exactly when every fetch failed.
C11_PartialBatch ==
  (RepoDone /\ rpReq.branch = "default") =>
    LET succeeded == Range(rpReq.selected) \ rpReq.failed
    IN /\ Len(rpReq.selected) = Min(rpReq.count, Len(curatedRepos))
       /\ Cardinality(Range(rpReq.selected)) = Len(rpReq.selected)
       /\ succeeded # {} =>
            /\ rpReq.resp.status = 200 /\ rpReq.resp.kind = "list"
            /\ ListsExactly(rpReq.resp.list, succeeded)
       /\ rpReq.resp.status = 500 <=> succeeded = {}
       /\ rpReq.resp.status = 500 => rpReq.resp.kind = "error" /\ rpReq.resp.list = <<>>

C11_Witness ==
  /\ RepoDone /\ rpReq.branch = "default" /\ rpReq.language = "undefined"
  /\ Len(rpReq.selected) = 2 /\ rpReq.failed = { rpReq.selected[1] }
  /\ rpReq.resp.status = 200 /\ Len(rpReq.resp.list) = 1

\* C14: a request with a non-empty repo parameter ends in the single-repository
\* branch whatever the other parameters are: 200 with the normalized
\* repository and a beginner_issues array when the details fetch did not fail,
\* 404 when it failed, and never a list.
C14_RepoBranch ==
  (RepoDone /\ rpReq.repo # "undefined") =>
    /\ rpReq.branch = "repo"
    /\ rpReq.resp.list = <<>> /\ rpReq.resp.kind # "list"
    /\ IF rpReq.repo \in rpReq.failed
       THEN rpReq.resp.status = 404 /\ rpReq.resp.kind = "error"
       ELSE /\ rpReq.resp.status = 200 /\ rpReq.resp.kind = "project"
            /\ rpReq.resp.project = getRepoDetails(UpstreamRepo(rpReq.repo))
            /\ rpReq.resp.issues \in IssueLists

C14_Witness ==
  /\ RepoDone /\ rpReq.repo = "facebook/react" /\ rpReq.filter = "trending"
  /\ rpReq.language = "JavaScript" /\ rpReq.topic = "ui"
  /\ rpReq.resp.status = 200 /\ rpReq.resp.project.full_name = "facebook/react"
  /\ Len(rpReq.resp.issues) = 1

Filtered == rpReq.repo = "undefined" /\ (rpReq.language # "undefined" \/ rpReq.topic # "undefined")

NoDuplicates(seq) == \A i, j \in 1..Len(seq) : i # j => seq[i] # seq[j]

\* C19: with a language and/or topic filter the loop probes a curated
\* repository at most once and at most the whole list; while it probes, fewer
\* than count matches are collected; a response of the filter branch is 200
\* with between 1 and count repositories that all satisfy every filter, the
\* last of them being the last one probed when there are count of them and
\* the whole list having been probed otherwise; a request that found no match
\* probed the whole list and ends in the default branch with at most count
\* distinct curated repositories selected.
C19_FilterProbing ==
  (srRoute = "github" /\ Filtered /\ rpReq.branch \in { "filter", "default" }) =>
    /\ NoDuplicates(rpReq.probed)
    /\ Range(rpReq.probed) \subseteq Range(curatedRepos)
    /\ Len(rpReq.probed) <= Len(curatedRepos)
    /\ rpReq.pc = "awaitProbe" => Len(rpReq.found) < rpReq.count
    /\ (rpReq.pc = "done" /\ rpReq.branch = "filter") =>
         LET list == rpReq.resp.list
         IN /\ rpReq.resp.status = 200 /\ rpReq.resp.kind = "list"
            /\ Len(list) >= 1 /\ Len(list) <= rpReq.count
            /\ \A i \in 1..Len(list) : Matches(rpReq, list[i])
            /\ Len(list) = rpReq.count =>
                 list[Len(list)].full_name = rpReq.probed[Len(rpReq.probed)]
            /\ Len(list) < rpReq.count => Len(rpReq.probed) = Len(curatedRepos)
    /\ rpReq.branch = "default" =>
         /\ Len(rpReq.probed) = Len(curatedRepos)
         /\ Len(rpReq.selected) <= rpReq.count
         /\ NoDuplicates(rpReq.selected)
         /\ Range(rpReq.selected) \subseteq Range(curatedRepos)
         /\ rpReq.pc = "done" => rpReq.resp.status \in { 200, 500 }

C19_Witness ==
  /\ RepoDone /\ Filtered /\ rpReq.branch = "filter"
  /\ rpReq.topic = "ui" /\ rpReq.count = 1
  /\ Len(rpReq.probed) = 1 /\ Len(rpReq.resp.list) = 1

C19_FallbackWitness ==
  /\ RepoDone /\ Filtered /\ rpReq.branch = "default"
  /\ Len(rpReq.probed) = 2 /\ rpReq.resp.status = 200

\* ---------------------------------------------------------------------------
\* Properties of the server caches
\* ---------------------------------------------------------------------------
RouteDone == srRoute \in { "search", "issues", "weather" } /\ srReq.pc = "done"

\* C13: when the upstream issues request answers with a status other than 200,
\* with a body that is not a list, or not at all, GET /api/github/issues
\* responds 200 with an empty issues list and GET /api/github?repo=R responds
\* 200 with the repository and an empty beginner_issues list.
C13_IssuesTolerant ==
  (rpEvent.call = "issues" /\ ~rpEvent.ok) =>
    /\ srRoute = "issues" =>
         /\ srReq.pc = "done" /\ srReq.resp.status = 200
         /\ srReq.resp.kind = "issues" /\ srReq.resp.data = <<>>
    /\ srRoute = "github" =>
         /\ rpReq.pc = "done" /\ rpReq.resp.status = 200
         /\ rpReq.resp.kind = "project" /\ rpReq.resp.issues = <<>>
         /\ rpReq.resp.project = getRepoDetails(UpstreamRepo(rpReq.repo))

C13_Witness ==
  /\ srRoute = "issues" /\ srReq.pc = "done" /\ srReq.stale
  /\ rpEvent.call = "issues" /\ ~rpEvent.ok
  /\ Len(issueCache[srReq.cacheKey].data) = 1
  /\ srReq.resp.status = 200 /\ srReq.resp.data = <<>>

C13_RepoWitness ==
  /\ RepoDone /\ rpReq.branch = "repo"
  /\ rpEvent.call = "issues" /\ ~rpEvent.ok
  /\ rpReq.resp.status = 200 /\ rpReq.resp.issues = <<>>

\* the TTL of each data kind as the specification gives it
SpecifiedTtl ==
  CASE srRoute = "search" -> 5 * 60 * 1000
    [] srRoute = "issues" -> 5 * 60 * 1000
    [] srRoute = "github" -> 30 * 60 * 1000
    [] OTHER -> 10 * 60 * 1000

\* the five cache maps as one; their keys are disjoint
AllCaches == repoCache @@ trendingCache @@ searchCache @@ issueCache @@ simpleWeatherCache

RequestStarts == rpStarted' = rpStarted + 1

\* every entry a step returned from a cache had an age below the TTL
ServedOnlyFresh ==
  LET newHits == IF srRoute = "github"
                 THEN IF RequestStarts THEN rpReq'.hits ELSE rpReq'.hits \ rpReq.hits
                 ELSE IF RequestStarts /\ srReq'.hit THEN { srReq'.cacheKey } ELSE {}
  IN \A k \in newHits :
       /\ k \in DOMAIN AllCaches'
       /\ rpNow - AllCaches'[k].timestamp < SpecifiedTtl

Expired(k) == k \in DOMAIN AllCaches /\ rpNow - AllCaches[k].timestamp >= SpecifiedTtl

\* a request that finds the entry of its key expired calls upstream for it
ExpiredIsFetched ==
  /\ (RequestStarts /\ srRoute # "github" /\ Expired(srReq'.cacheKey)) =>
       /\ srReq'.pc = "await" /\ srReq'.calls = 1 /\ ~srReq'.hit
  /\ (RequestStarts /\ srRoute = "github" /\ rpReq'.repo # "undefined"
        /\ Expired(RepoCacheKey(rpReq'.repo))) =>
       rpReq'.pc = "awaitDetails"
  /\ (RequestStarts /\ srRoute = "github" /\ rpReq'.repo = "undefined"
        /\ rpReq'.filter = "trending"
        /\ Expired(TrendingCacheKey(rpReq'.language, "daily", rpReq'.topic))) =>
       rpReq'.pc = "awaitTrending"
  /\ (srRoute = "github" /\ rpReq.pc # "awaitDefault" /\ rpReq'.pc = "awaitDefault") =>
       \A i \in 1..Len(rpReq'.selected) :
         LET k == RepoCacheKey(rpReq'.selected[i])
         IN (k \in DOMAIN AllCaches' /\ rpNow - AllCaches'[k].timestamp >= SpecifiedTtl)
              => rpReq'.selected[i] \in rpReq'.pending

\* the step settled an upstream call made for a key whose entry had expired
ExpiredWasFetched == rpEvent'.call # "none" /\ rpEvent'.cacheKey \in DOMAIN AllCaches

\* the entry of the key now carries the time the call was made, at least a
\* TTL later than the timestamp it replaced
EntryReplaced ==
  LET k == rpEvent'.cacheKey
      callNow == IF srRoute = "github" THEN rpReq.callNow ELSE srReq.callNow
  IN /\ k \in DOMAIN AllCaches'
     /\ AllCaches'[k].timestamp = callNow
     /\ AllCaches'[k].timestamp >= AllCaches[k].timestamp + SpecifiedTtl

C20_AsStated ==
  RepoDone =>
    (rpReq.wrote # {} => ~rpReq.anyFailed /\ rpReq.resp.status = 200)

\* C20: a cache map changes only in the step in which an upstream fetch
\* answered 200, and then only at the key of that fetch; a step whose fetch
\* failed and a step that ends in an error response change no cache map.
C20_WriteOnlyOnSuccess ==
  [][ /\ AllCaches' # AllCaches =>
           /\ rpEvent'.ok /\ rpEvent'.cacheKey # "" /\ ~rpEvent'.empty
           /\ DOMAIN AllCaches' = DOMAIN AllCaches \cup { rpEvent'.cacheKey }
           /\ \A k \in DOMAIN AllCaches \ { rpEvent'.cacheKey } : AllCaches'[k] = AllCaches[k]
           /\ srRoute = "github" => rpReq'.resp.status \in { 0, 200 }
           /\ srRoute # "github" => srReq'.resp.status = 200
      /\ (rpEvent'.call # "none" /\ ~rpEvent'.ok) => AllCaches' = AllCaches ]_vars

C20_Witness ==
  /\ RepoDone /\ rpReq.branch = "default"
  /\ rpReq.wrote # {} /\ rpReq.anyFailed
  /\ rpEvent.call = "default" /\ ~rpEvent.ok
  /\ rpReq.resp.status = 200

\* the combined weather handler (SpecWeather) writes weatherCache only in the
\* step in which the forecast call, the second of its two, answered 200
CombinedWeatherWritesAfterBoth ==
  [][ weatherCache' # weatherCache =>
        /\ wLast'.upstream = [call |-> "forecast", kind |-> "ok", status |-> 200]
        /\ wLast'.status = 200 /\ wLast'.calls = 2 ]_vars

====
